---- MODULE Spec2Model ----
(***************************************************************************)
(* Model of the genetic program-repair engine of sethwhenton/APR           *)
(* (src/phase1): the generational driver (evolution.py), the test harness  *)
(* (test_harness.py) and the mutation engine (mutation.py).                *)
(*                                                                         *)
(* Numbers: fitness values and test weights are integers; the localizer's  *)
(* suspiciousness weights 0.0, 0.1 and 1.0 are kept in tenths (0, 1, 10).  *)
(***************************************************************************)
EXTENDS Integers, Sequences, FiniteSets, TLC

VARIABLES
    \* ---- TestHarness fields (test_harness.py:51-58)
    max_fitness,        \* config["max_fitness"]
    positive_tests,     \* config["positive_tests"]["cases"]: sequence of cases
    positive_weight,    \* config["positive_tests"]["weight"]
    negative_tests,     \* config["negative_tests"]["cases"]
    negative_weight,    \* config["negative_tests"]["weight"]
    \* ---- run_evolution (evolution.py:363-517)
    population_size,    \* argument population_size
    num_generations,    \* argument num_generations
    original_lines,     \* the patient, as loaded by load_program
    weighted_lines,     \* result of harness.run_fault_localization()
    pc,                 \* position of run_evolution
    population,         \* the current population
    new_population,     \* repopulate's list under construction
    scored_population,  \* evaluate_population's list of (variant, fitness)
    survivors,          \* select_survivors' first result
    generation,         \* loop variable of the evolution loop
    final_generation,
    best_variant,
    best_fitness,
    parent,             \* repopulate: the parent drawn for the current child
    attempts,           \* the attempts counter of the current retry loop
    exception,          \* the exception that left run_evolution, or "none"
    returned,           \* the value run_evolution returned
    repaired_solution,  \* benchmark_dir/repaired_solution.py
    best_attempt,       \* benchmark_dir/best_attempt.py
    report_summary,     \* benchmark_dir/report_summary.txt
    temp_dir,           \* whether TEMP_DIR exists
    \* ---- TestHarness.evaluate_file on one variant (test_harness.py:71-188)
    candidate,          \* what the variant file under evaluation does
    hpc,                \* position of evaluate_file
    test_index,         \* index of the case of the running loop
    fitness,            \* evaluate_file's accumulator
    call,               \* position of _run_with_timeout
    future,             \* the future of the submitted invocation
    worker,             \* the executor's worker thread
    outcome,            \* the (success, result) pair _run_with_timeout returns
    eval_result,        \* the value evaluate_file returned
    escaped,            \* the exception that left evaluate_file, or "none"
    args,               \* the argument list handed to the entry point
    invoked,            \* the invocations of the entry point so far, in order
    \* ---- TestHarness.run_fault_localization (test_harness.py:220-268)
    lpc,                \* position of run_fault_localization
    traced,             \* number of cases of the running loop traced so far
    pos_traces,         \* the results get_coverage had on the positive cases so far
    neg_traces,         \* the results get_coverage had on the negative cases so far
    lines_p,            \* lines executed by positive tests
    lines_f,            \* lines executed by negative tests
    \* ---- apply_random_mutation on one variant (mutation.py:317-386)
    lines,              \* argument lines: the variant, a sequence of text lines
    mpc,                \* position of apply_random_mutation
    drawn,              \* select_line_by_weight's draw r, in tenths
    target_idx,         \* the index select_line_by_weight returned
    source_idx,         \* the index of the source line
    op,                 \* the operator drawn
    mutated_lines,      \* the operator's output
    result,             \* the value apply_random_mutation returned
    calls,              \* number of variants bred from an earlier result
    \* ---- crossover and crossover_single on two parents (mutation.py:212-292)
    parent_a,           \* first parent, a sequence of text lines
    parent_b,           \* second parent
    cpc,                \* position of crossover / crossover_single
    attempt,            \* pivots tried so far
    pivot,              \* the last pivot drawn
    offspring_1,        \* first element of crossover's result
    offspring_2,        \* second element of crossover's result
    single,             \* the value crossover_single returned
    \* ---- the files and modules of one run (evolution.py:115-137, 396-517;
    \* ---- test_harness.py:83-95)
    clock,              \* the time of the file system, in whole seconds
    files,              \* TEMP_DIR/variant_<i>.py for each index i: text, mtime, size
    pycache,            \* TEMP_DIR/__pycache__/variant_<i>.*.pyc: mtime, size, code
    sys_modules,        \* sys.modules: the module registered under each name
    loads,              \* the loads evaluate_file made, in order
    variant_index,      \* i of evaluate_population's loop
    written,            \* how often each index was written in this generation
    localizations,      \* calls of run_fault_localization so far
    weights_seen,       \* the weight lists apply_random_mutation was given
    \* ---- line lists as objects (mutation.py:38, 53, 72, 137, 188, 255-256)
    heap,               \* the list objects, by identity
    passed,             \* identities of the lists passed to the last call
    produced            \* identities of the lists the last call returned

driver_vars == <<population_size, num_generations, original_lines, pc, population,
                 new_population, survivors, generation, final_generation,
                 best_variant, best_fitness, parent, attempts, exception,
                 returned, repaired_solution, best_attempt, report_summary, temp_dir>>

harness_fields == <<max_fitness, positive_tests, positive_weight,
                    negative_tests, negative_weight>>

eval_vars == <<candidate, hpc, test_index, fitness, call, future, worker, outcome,
               eval_result, escaped, args, invoked>>

loc_vars == <<lpc, traced, pos_traces, neg_traces, lines_p, lines_f>>

engine_vars == <<lines, mpc, drawn, target_idx, source_idx, op, mutated_lines, result,
                 calls>>

cross_vars == <<parent_a, parent_b, cpc, attempt, pivot, offspring_1, offspring_2,
                single>>

mut_vars == <<engine_vars, cross_vars>>

session_vars == <<clock, files, pycache, sys_modules, loads, variant_index, written,
                  localizations, weights_seen>>

heap_vars == <<heap, passed, produced>>

vars == <<harness_fields, driver_vars, weighted_lines, scored_population, eval_vars,
          loc_vars, mut_vars, session_vars, heap_vars>>

----------------------------------------------------------------------------
(* Bounds of the model *)

\* largest population size N given to run_evolution
MaxPop == 3
\* largest population size of the runs followed file by file
MaxFiles == 2
\* the seconds the file system's clock advances during a run
MaxClock == 1
\* largest generation budget G given to run_evolution
MaxGen == 2
\* most positive cases, and most negative cases, of a battery
MaxTests == 1
\* largest weight of a test class
MaxWeight == 2
\* largest line number of the patient that a trace can report
MaxLine == 3
\* most positive cases, and most negative cases, of a battery evaluate_file is run on
MaxCases == 2
\* longest scored population given to select_survivors on its own
MaxScored == 4
\* largest fitness in a scored population given to select_survivors on its own
MaxScore == 2
\* most generations of variants bred from a patient by apply_random_mutation
MaxBreed == 1

(* Program constants *)

\* the retry bound of the mutation loops: "attempts < 10"
MAX_ATTEMPTS == 10
\* SURVIVOR_RATIO = 0.5, as the fraction 1 / SURVIVOR_DIVISOR
SURVIVOR_DIVISOR == 2

\* Python's None
None == [none |-> TRUE]

----------------------------------------------------------------------------
(* The fault localizer: TestHarness.run_fault_localization *)

RECURSIVE descending_lines(_)
\* mutant of sorted_lines: the lines in descending order
descending_lines(S) ==
    IF S = {} THEN <<>>
    ELSE LET m == CHOOSE x \in S : \A y \in S : x >= y
         IN <<m>> \o descending_lines(S \ {m})

\* mutant of line_weight: the weights of "in both" and "only in failing" exchanged
line_weight_exchanged(line, P, F) ==
    IF line \in F
    THEN (IF line \in P THEN 10 ELSE 1)
    ELSE 0

RECURSIVE sorted_lines(_)
\* sorted(all_lines): the set as an ascending sequence
sorted_lines(S) ==
    IF S = {} THEN <<>>
    ELSE LET m == CHOOSE x \in S : \A y \in S : x <= y
         IN <<m>> \o sorted_lines(S \ {m})

\* the weight of one line: 0.1 in both, 1.0 only in failing, 0.0 only in passing
line_weight(line, P, F) ==
    IF line \in F
    THEN (IF line \in P THEN 1 ELSE 10)
    ELSE 0

\* the union of the lines the cases of one class cover
union_coverage(traces) == UNION {traces[i] : i \in DOMAIN traces}

\* the weighted lines of the coverage sets P and F (test_harness.py:255-268)
weigh_lines(P, F) ==
    LET order == sorted_lines(P \cup F)
    IN [i \in 1..Len(order) |-> <<order[i], line_weight(order[i], P, F)>>]

\* traces_p, traces_n: get_coverage's result for each case, in order
run_fault_localization(traces_p, traces_n) ==
    weigh_lines(union_coverage(traces_p), union_coverage(traces_n))

----------------------------------------------------------------------------
(* The mutation engine as the driver sees it *)

\* apply_random_mutation's candidates: the localized lines of non-zero weight,
\* or all of them with weight 1.0 when there is none
candidates(weighted_lines_info) ==
    LET nonzero == SelectSeq(weighted_lines_info, LAMBDA lw : lw[2] > 0)
    IN IF nonzero # <<>> THEN [i \in 1..Len(nonzero) |-> <<nonzero[i][1] - 1, nonzero[i][2]>>]
       ELSE [i \in 1..Len(weighted_lines_info) |-> <<weighted_lines_info[i][1] - 1, 10>>]

\* what one call of apply_random_mutation on a variant can return to the driver:
\* failure (None) or a new variant.  A variant is known to the driver by the
\* tests it passes: pp positive and np negative cases; orig marks the patient's
\* own lines (original_lines[:]), which no mutation produced.
mutation_results ==
    {None} \cup [orig : {FALSE}, pp : 0..Len(positive_tests), np : 0..Len(negative_tests)]

----------------------------------------------------------------------------
(* The harness as the driver sees it *)

\* TestHarness.evaluate_file: the weights of the cases the variant passes
evaluate_file(variant) ==
    variant.pp * positive_weight + variant.np * negative_weight

\* evaluate_population: every variant with its fitness, in population order
evaluate_population(pop) ==
    [i \in 1..Len(pop) |-> [variant |-> pop[i], fitness |-> evaluate_file(pop[i])]]

----------------------------------------------------------------------------
(* select_survivors *)

RECURSIVE insert_desc_unstable(_, _)
\* mutant of insert_desc: x goes in front of the elements that are as fit as it is
\* (the order a sort ascending followed by a reversal gives)
insert_desc_unstable(s, x) ==
    IF s = <<>> THEN <<x>>
    ELSE IF Head(s).fitness > x.fitness
         THEN <<Head(s)>> \o insert_desc_unstable(Tail(s), x)
         ELSE <<x>> \o s

RECURSIVE insert_desc(_, _)
\* x goes behind every element that is at least as fit: equal elements keep their order
insert_desc(s, x) ==
    IF s = <<>> THEN <<x>>
    ELSE IF Head(s).fitness >= x.fitness
         THEN <<Head(s)>> \o insert_desc(Tail(s), x)
         ELSE <<x>> \o s

RECURSIVE sorted_desc(_)
\* sorted(scored_population, key=lambda x: x[1], reverse=True): a stable sort
sorted_desc(s) ==
    IF s = <<>> THEN <<>>
    ELSE insert_desc(sorted_desc(SubSeq(s, 1, Len(s) - 1)), s[Len(s)])

\* int(len(sorted_pop) * SURVIVOR_RATIO)
num_survivors(n) == n \div SURVIVOR_DIVISOR

\* the survivors, and the best fitness of the generation (sorted_pop[0][1])
select_survivors(scored) ==
    LET sorted_pop == sorted_desc(scored)
    IN [survivors |-> [i \in 1..num_survivors(Len(sorted_pop)) |-> sorted_pop[i].variant],
        gen_best |-> sorted_pop[1].fitness]

----------------------------------------------------------------------------
(* run_evolution: the generational driver *)

\* get_coverage's result for one case of the batteries the driver is run on:
\* no line of the patient file, or all of them
DriverTraces == {{}, 1..MaxLine}

\* the cases of a battery with n cases of one class
TestCases(n) == [i \in 1..n |-> [input |-> <<i>>, expected |-> i]]

\* |positive| * w_pos + |negative| * w_neg
weight_sum == Len(positive_tests) * positive_weight + Len(negative_tests) * negative_weight

\* the values of config["max_fitness"] the model draws for a battery whose weights sum to f
MaxFitnessValues(f) == {f - 1, f, f + 1} \cap Nat

\* _load_tests: the fields are read from tests.json as they stand
LoadTests(most_cases, pos_weights) ==
    \E np \in 0..most_cases, nn \in 0..most_cases,
       wp \in pos_weights, wn \in 1..MaxWeight :
        /\ positive_tests = TestCases(np)
        /\ negative_tests = TestCases(nn)
        /\ positive_weight = wp
        /\ negative_weight = wn
        /\ max_fitness \in MaxFitnessValues(np * wp + nn * wn)

\* run_fault_localization has returned (the driver keeps only its result)
LocIdle ==
    /\ lpc = "idle"
    /\ traced = 0
    /\ pos_traces = {}
    /\ neg_traces = {}
    /\ lines_p = {}
    /\ lines_f = {}

\* no call of crossover is followed
CrossIdle ==
    /\ parent_a = <<>>
    /\ parent_b = <<>>
    /\ cpc = "idle"
    /\ attempt = 0
    /\ pivot = None
    /\ offspring_1 = None
    /\ offspring_2 = None
    /\ single = None

\* no call of apply_random_mutation is followed
EngineIdle ==
    /\ lines = <<>>
    /\ mpc = "idle"
    /\ drawn = None
    /\ target_idx = None
    /\ source_idx = None
    /\ op = None
    /\ mutated_lines = None
    /\ result = None
    /\ calls = 0

\* neither apply_random_mutation nor crossover is running
MutIdle ==
    /\ EngineIdle
    /\ CrossIdle

\* no file of a run is followed
SessionIdle ==
    /\ clock = 0
    /\ files = <<>>
    /\ pycache = <<>>
    /\ sys_modules = {}
    /\ loads = <<>>
    /\ variant_index = 0
    /\ written = <<>>
    /\ localizations = <<>>
    /\ weights_seen = {}

\* no list object is followed
HeapIdle ==
    /\ heap = <<>>
    /\ passed = <<>>
    /\ produced = <<>>

\* no variant file is under evaluation
EvalIdle ==
    /\ candidate = None
    /\ hpc = "idle"
    /\ test_index = 0
    /\ fitness = 0
    /\ call = "idle"
    /\ future = "none"
    /\ worker = "none"
    /\ outcome = None
    /\ eval_result = None
    /\ escaped = "none"
    /\ args = None
    /\ invoked = <<>>

\* the state of run_evolution when initialize_population has put the patient
\* at index 0 (evolution.py:276)
Init ==
    /\ LoadTests(MaxTests, {1})
    /\ EvalIdle
    /\ MutIdle
    /\ SessionIdle
    /\ HeapIdle
    /\ LocIdle
    /\ population_size \in 1..MaxPop
    /\ num_generations \in 0..MaxGen
    /\ original_lines \in [orig : {TRUE}, pp : 0..Len(positive_tests),
                                          np : 0..Len(negative_tests)]
    /\ \E traces_p \in [1..Len(positive_tests) -> DriverTraces],
          traces_n \in [1..Len(negative_tests) -> DriverTraces] :
            weighted_lines = run_fault_localization(traces_p, traces_n)
    /\ pc = "seed"
    /\ population = <<original_lines>>
    /\ new_population = <<>>
    /\ scored_population = <<>>
    /\ survivors = <<>>
    /\ generation = 0
    /\ final_generation = 0
    /\ best_variant = None
    /\ best_fitness = 0
    /\ parent = None
    /\ attempts = 0
    /\ exception = "none"
    /\ returned = None
    /\ repaired_solution = None
    /\ best_attempt = None
    /\ report_summary = None
    /\ temp_dir = TRUE

running == exception = "none"

\* mutant of retry: the retry loop gives up after one failed attempt
retry_once(mutant, tried) == mutant = None /\ tried < 1

\* "while mutant is None and attempts < 10" (evolution.py:283)
retry(mutant, tried) == mutant = None /\ tried < MAX_ATTEMPTS

\* the head of "for generation in range(1, num_generations + 1)" for value g
loop_head(g) ==
    IF g <= num_generations
    THEN /\ pc' = "evaluate"
         /\ generation' = g
    ELSE /\ pc' = "exhausted"
         /\ UNCHANGED generation

\* initialize_population, one attempt of the retry loop (evolution.py:283-285).
\* select_line_by_weight unpacks zip(*candidates): no candidate, ValueError.
SeedAttempt ==
    /\ running /\ pc = "seed"
    /\ Len(population) < population_size
    /\ retry(None, attempts)
    /\ IF candidates(weighted_lines) = <<>>
       THEN /\ exception' = "ValueError"
            /\ UNCHANGED <<population, attempts>>
       ELSE \E m \in mutation_results :
              /\ exception' = exception
              /\ IF m = None
                 THEN /\ attempts' = attempts + 1
                      /\ UNCHANGED population
                 ELSE /\ population' = Append(population, m)
                      /\ attempts' = 0
    /\ UNCHANGED <<eval_vars, loc_vars, mut_vars, session_vars, heap_vars>>
    /\ UNCHANGED <<harness_fields, population_size, num_generations, original_lines,
                   weighted_lines, pc, new_population, scored_population, survivors,
                   generation, final_generation, best_variant, best_fitness, parent,
                   returned, repaired_solution, best_attempt, report_summary, temp_dir>>

\* initialize_population: ten failures, the slot gets a clone of the patient
SeedFallback ==
    /\ running /\ pc = "seed"
    /\ Len(population) < population_size
    /\ ~retry(None, attempts)
    /\ population' = Append(population, original_lines)
    /\ attempts' = 0
    /\ UNCHANGED <<eval_vars, loc_vars, mut_vars, session_vars, heap_vars>>
    /\ UNCHANGED <<harness_fields, population_size, num_generations, original_lines,
                   weighted_lines, pc, new_population, scored_population, survivors,
                   generation, final_generation, best_variant, best_fitness, parent,
                   exception, returned, repaired_solution, best_attempt,
                   report_summary, temp_dir>>

\* initialize_population returns; the evolution loop begins (evolution.py:418-424)
SeedReturn ==
    /\ running /\ pc = "seed"
    /\ Len(population) >= population_size
    /\ loop_head(1)
    /\ UNCHANGED <<eval_vars, loc_vars, mut_vars, session_vars, heap_vars>>
    /\ UNCHANGED <<harness_fields, population_size, num_generations, original_lines,
                   weighted_lines, population, new_population, scored_population,
                   survivors, final_generation, best_variant, best_fitness, parent,
                   attempts, exception, returned, repaired_solution,
                   best_attempt, report_summary, temp_dir>>

\* initialize_population alone, from the patient at index 0 to its return; the
\* number of generations is no argument of it
InitSeed == Init /\ num_generations = 1

NextSeed == SeedAttempt \/ SeedFallback \/ SeedReturn

SpecSeed == InitSeed /\ [][NextSeed]_vars

\* evaluate_population (evolution.py:429): every variant is scored in turn.
\* A call of evaluate_file that never returns leaves the driver inside it, and
\* a SystemExit of a variant, which evaluate_file does not catch, leaves
\* evaluate_population and run_evolution.
EvaluatePopulation ==
    /\ running /\ pc = "evaluate"
    /\ \/ /\ scored_population' = evaluate_population(population)
          /\ pc' = "check"
          /\ UNCHANGED exception
       \/ /\ pc' = "blocked"
          /\ UNCHANGED <<scored_population, exception>>
       \/ /\ exception' = "SystemExit"
          /\ UNCHANGED <<scored_population, pc>>
    /\ UNCHANGED <<eval_vars, loc_vars, mut_vars, session_vars, heap_vars>>
    /\ UNCHANGED <<harness_fields, population_size, num_generations, original_lines,
                   weighted_lines, population, new_population, survivors, generation,
                   final_generation, best_variant, best_fitness, parent, attempts,
                   returned, repaired_solution, best_attempt,
                   report_summary, temp_dir>>

\* mutant of first_perfect: the last scored variant with fitness >= max_fitness
last_perfect(scored) ==
    IF \E i \in 1..Len(scored) : scored[i].fitness >= max_fitness
    THEN CHOOSE i \in 1..Len(scored) :
            /\ scored[i].fitness >= max_fitness
            /\ \A j \in (i + 1)..Len(scored) : scored[j].fitness < max_fitness
    ELSE 0

\* the index of the first scored variant with fitness >= harness.max_fitness, or 0
first_perfect(scored) ==
    IF \E i \in 1..Len(scored) : scored[i].fitness >= max_fitness
    THEN CHOOSE i \in 1..Len(scored) :
            /\ scored[i].fitness >= max_fitness
            /\ \A j \in 1..(i - 1) : scored[j].fitness < max_fitness
    ELSE 0

\* mutant of improves: every score that differs replaces the best so far
differs(score, best_score) == score # best_score

\* "if fitness > best_fitness" (evolution.py:475)
improves(score, best_score) == score > best_score

RECURSIVE track_best(_, _)
\* the best-so-far update over the scored variants in order
\* (evolution.py:475-477)
track_best(scored, best) ==
    IF scored = <<>> THEN best
    ELSE track_best(Tail(scored),
                    IF improves(Head(scored).fitness, best.fitness)
                    THEN [variant |-> Head(scored).variant, fitness |-> Head(scored).fitness]
                    ELSE best)

\* write_summary_report's arguments that the claims read
summary_report(success, final, achieved, repaired) ==
    [success |-> success, generations_run |-> num_generations,
     final_generation |-> final, max_fitness |-> max_fitness,
     achieved_fitness |-> achieved, repaired_lines |-> repaired]

\* the loop "for variant, fitness in scored_population" (evolution.py:433-477)
\* up to the first perfect variant, where success is announced
\* (evolution.py:435-437), or to its end
CheckPerfect ==
    /\ running /\ pc = "check"
    /\ LET w == first_perfect(scored_population)
           seen == IF w = 0 THEN scored_population ELSE SubSeq(scored_population, 1, w - 1)
           best == track_best(seen, [variant |-> best_variant, fitness |-> best_fitness])
       IN /\ best_variant' = best.variant
          /\ best_fitness' = best.fitness
          /\ IF w # 0
             THEN /\ pc' = "announced"
                  /\ UNCHANGED final_generation
             ELSE /\ final_generation' = generation
                  /\ pc' = "select"
    /\ UNCHANGED <<eval_vars, loc_vars, mut_vars, session_vars, heap_vars>>
    /\ UNCHANGED <<harness_fields, population_size, num_generations, original_lines,
                   weighted_lines, population, new_population, scored_population,
                   survivors, generation, parent, attempts, exception, best_attempt,
                   repaired_solution, report_summary, temp_dir, returned>>

\* the (variant, fitness) pair the success check stopped at
winner == scored_population[first_perfect(scored_population)]

\* mutant of save_variant_to_file: nothing is written
save_nothing(variant_lines) == None

\* save_variant_to_file: the file holds the variant's lines, concatenated
save_variant_to_file(variant_lines) == variant_lines

\* the winning variant is saved as repaired_solution.py (evolution.py:440-441)
SaveSolution ==
    /\ running /\ pc = "announced"
    /\ repaired_solution' = save_variant_to_file(winner.variant)
    /\ pc' = "saved"
    /\ UNCHANGED <<eval_vars, loc_vars, mut_vars, session_vars, heap_vars>>
    /\ UNCHANGED <<harness_fields, population_size, num_generations, original_lines,
                   weighted_lines, population, new_population, scored_population,
                   survivors, generation, final_generation, best_variant, best_fitness,
                   parent, attempts, exception, best_attempt, report_summary, temp_dir,
                   returned>>

\* the report of the success is written (evolution.py:457-469)
WriteReport ==
    /\ running /\ pc = "saved"
    /\ report_summary' = summary_report(TRUE, generation, winner.fitness, winner.variant)
    /\ pc' = "reported"
    /\ UNCHANGED <<eval_vars, loc_vars, mut_vars, session_vars, heap_vars>>
    /\ UNCHANGED <<harness_fields, population_size, num_generations, original_lines,
                   weighted_lines, population, new_population, scored_population,
                   survivors, generation, final_generation, best_variant, best_fitness,
                   parent, attempts, exception, best_attempt, repaired_solution,
                   temp_dir, returned>>

\* cleanup_temp_directory() and "return variant" (evolution.py:472-473)
ReturnVariant ==
    /\ running /\ pc = "reported"
    /\ temp_dir' = FALSE
    /\ returned' = winner.variant
    /\ pc' = "success"
    /\ UNCHANGED <<eval_vars, loc_vars, mut_vars, session_vars, heap_vars>>
    /\ UNCHANGED <<harness_fields, population_size, num_generations, original_lines,
                   weighted_lines, population, new_population, scored_population,
                   survivors, generation, final_generation, best_variant, best_fitness,
                   parent, attempts, exception, best_attempt, repaired_solution,
                   report_summary>>

\* select_survivors, and repopulate's "new_population = survivors[:]"
SelectSurvivors ==
    /\ running /\ pc = "select"
    /\ survivors' = select_survivors(scored_population).survivors
    /\ new_population' = survivors'
    /\ pc' = "repopulate"
    /\ UNCHANGED <<eval_vars, loc_vars, mut_vars, session_vars, heap_vars>>
    /\ UNCHANGED <<harness_fields, population_size, num_generations, original_lines,
                   weighted_lines, population, scored_population, generation,
                   final_generation, best_variant, best_fitness, parent, attempts,
                   exception, returned, repaired_solution, best_attempt,
                   report_summary, temp_dir>>

\* repopulate: "parent = random.choice(survivors)[:]"; IndexError when there is
\* no survivor
ChooseParent ==
    /\ running /\ pc = "repopulate"
    /\ Len(new_population) < population_size
    /\ parent = None
    /\ IF survivors = <<>>
       THEN /\ exception' = "IndexError"
            /\ UNCHANGED parent
       ELSE /\ \E i \in 1..Len(survivors) : parent' = survivors[i]
            /\ UNCHANGED exception
    /\ UNCHANGED <<eval_vars, loc_vars, mut_vars, session_vars, heap_vars>>
    /\ UNCHANGED <<harness_fields, population_size, num_generations, original_lines,
                   weighted_lines, pc, population, new_population, scored_population,
                   survivors, generation, final_generation, best_variant, best_fitness,
                   attempts, returned, repaired_solution, best_attempt,
                   report_summary, temp_dir>>

\* repopulate, one attempt of the retry loop (evolution.py:351-353)
ChildAttempt ==
    /\ running /\ pc = "repopulate"
    /\ parent # None
    /\ attempts < MAX_ATTEMPTS
    /\ IF candidates(weighted_lines) = <<>>
       THEN /\ exception' = "ValueError"
            /\ UNCHANGED <<new_population, attempts, parent>>
       ELSE \E m \in mutation_results :
              /\ exception' = exception
              /\ IF m = None
                 THEN /\ attempts' = attempts + 1
                      /\ UNCHANGED <<new_population, parent>>
                 ELSE /\ new_population' = Append(new_population, m)
                      /\ attempts' = 0
                      /\ parent' = None
    /\ UNCHANGED <<eval_vars, loc_vars, mut_vars, session_vars, heap_vars>>
    /\ UNCHANGED <<harness_fields, population_size, num_generations, original_lines,
                   weighted_lines, pc, population, scored_population, survivors,
                   generation, final_generation, best_variant, best_fitness,
                   returned, repaired_solution, best_attempt, report_summary, temp_dir>>

\* repopulate: ten failures, the child is a clone of the parent
ChildFallback ==
    /\ running /\ pc = "repopulate"
    /\ parent # None
    /\ attempts >= MAX_ATTEMPTS
    /\ new_population' = Append(new_population, parent)
    /\ attempts' = 0
    /\ parent' = None
    /\ UNCHANGED <<eval_vars, loc_vars, mut_vars, session_vars, heap_vars>>
    /\ UNCHANGED <<harness_fields, population_size, num_generations, original_lines,
                   weighted_lines, pc, population, scored_population, survivors,
                   generation, final_generation, best_variant, best_fitness, exception,
                   returned, repaired_solution, best_attempt, report_summary, temp_dir>>

\* repopulate returns; the next generation begins or the loop ends
RepopulateReturn ==
    /\ running /\ pc = "repopulate"
    /\ parent = None
    /\ Len(new_population) >= population_size
    /\ population' = new_population
    /\ loop_head(generation + 1)
    /\ UNCHANGED <<eval_vars, loc_vars, mut_vars, session_vars, heap_vars>>
    /\ UNCHANGED <<harness_fields, population_size, num_generations, original_lines,
                   weighted_lines, new_population, scored_population, survivors,
                   final_generation, best_variant, best_fitness, parent, attempts,
                   exception, returned, repaired_solution, best_attempt,
                   report_summary, temp_dir>>

\* the budget is exhausted (evolution.py:489-517): best_attempt.py is written
\* "if best_variant", then the report with success=False
ReportFailure ==
    /\ running /\ pc = "exhausted"
    /\ best_attempt' = IF best_variant # None THEN save_variant_to_file(best_variant)
                       ELSE None
    /\ report_summary' = summary_report(FALSE, final_generation, best_fitness, best_variant)
    /\ temp_dir' = FALSE
    /\ returned' = None
    /\ pc' = "failed"
    /\ UNCHANGED <<eval_vars, loc_vars, mut_vars, session_vars, heap_vars>>
    /\ UNCHANGED <<harness_fields, population_size, num_generations, original_lines,
                   weighted_lines, population, new_population, scored_population,
                   survivors, generation, final_generation, best_variant, best_fitness,
                   parent, attempts, exception, repaired_solution>>

Next ==
    \/ SeedAttempt
    \/ SeedFallback
    \/ SeedReturn
    \/ EvaluatePopulation
    \/ CheckPerfect
    \/ SaveSolution
    \/ WriteReport
    \/ ReturnVariant
    \/ SelectSurvivors
    \/ ChooseParent
    \/ ChildAttempt
    \/ ChildFallback
    \/ RepopulateReturn
    \/ ReportFailure

Spec == Init /\ [][Next]_vars

\* the runs of a battery with one positive and one negative case of weight 1
\* each, for a population of two or three variants: the smallest with a
\* survivor and two children of it
InitRun ==
    /\ Init
    /\ Len(positive_tests) = 1
    /\ Len(negative_tests) = 1
    /\ negative_weight = 1
    /\ population_size \in {2, 3}

SpecRun == InitRun /\ [][Next]_vars

----------------------------------------------------------------------------
(* select_survivors on its own: every scored population up to MaxScored *)

\* scored populations whose variant at index i is the list object i
ScoredPopulations ==
    UNION {[1..n -> 0..MaxScore] : n \in 1..MaxScored}

InitSel ==
    /\ \E f \in ScoredPopulations :
          scored_population = [i \in 1..Len(f) |-> [variant |-> i, fitness |-> f[i]]]
    /\ pc = "select"
    /\ EvalIdle
    /\ MutIdle
    /\ SessionIdle
    /\ HeapIdle
    /\ LocIdle
    /\ population_size = Len(scored_population)
    /\ population = [i \in 1..Len(scored_population) |-> i]
    /\ max_fitness = MaxScore + 1
    /\ positive_tests = <<>>
    /\ negative_tests = <<>>
    /\ positive_weight = 1
    /\ negative_weight = 1
    /\ num_generations = 1
    /\ original_lines = 1
    /\ weighted_lines = <<>>
    /\ new_population = <<>>
    /\ survivors = <<>>
    /\ generation = 1
    /\ final_generation = 1
    /\ best_variant = None
    /\ best_fitness = 0
    /\ parent = None
    /\ attempts = 0
    /\ exception = "none"
    /\ returned = None
    /\ repaired_solution = None
    /\ best_attempt = None
    /\ report_summary = None
    /\ temp_dir = TRUE

NextSel == SelectSurvivors

SpecSel == InitSel /\ [][NextSel]_vars

----------------------------------------------------------------------------
(* The success check of one generation on its own: run_evolution from the    *)
(* loop over a scored population (evolution.py:433) to its return            *)

InitSuccess ==
    /\ \E f \in ScoredPopulations :
          scored_population = [i \in 1..Len(f) |-> [variant |-> [id |-> i], fitness |-> f[i]]]
    /\ max_fitness \in 0..(MaxScore + 1)
    /\ pc = "check"
    /\ EvalIdle
    /\ MutIdle
    /\ SessionIdle
    /\ HeapIdle
    /\ LocIdle
    /\ population_size = Len(scored_population)
    /\ population = [i \in 1..Len(scored_population) |-> [id |-> i]]
    /\ positive_tests = <<>>
    /\ negative_tests = <<>>
    /\ positive_weight = 1
    /\ negative_weight = 1
    /\ num_generations = 1
    /\ original_lines = [id |-> 1]
    /\ weighted_lines = <<>>
    /\ new_population = <<>>
    /\ survivors = <<>>
    /\ generation = 1
    /\ final_generation = 0
    /\ best_variant = None
    /\ best_fitness = 0
    /\ parent = None
    /\ attempts = 0
    /\ exception = "none"
    /\ returned = None
    /\ repaired_solution = None
    /\ best_attempt = None
    /\ report_summary = None
    /\ temp_dir = TRUE

NextSuccess ==
    \/ CheckPerfect
    \/ SaveSolution
    \/ WriteReport
    \/ ReturnVariant

SpecSuccess == InitSuccess /\ [][NextSuccess]_vars

----------------------------------------------------------------------------
(* TestHarness.evaluate_file and _run_with_timeout on one variant file *)

\* what the entry point does on one case: return the expected value, return
\* another value, raise an Exception, raise SystemExit, return only after the
\* deadline, or never return
Behaviours == {"expected", "wrong", "raises", "exits", "slow", "diverges"}

\* a variant file: whether exec_module succeeds, whether the module defines
\* function_name, and the entry point's behaviour on every case
Candidates ==
    [loads : {"ok"}, defines : {TRUE}, mutates : BOOLEAN,
     pos : [1..Len(positive_tests) -> Behaviours],
     neg : [1..Len(negative_tests) -> Behaviours]]
    \cup [loads : {"ok", "error", "exits"}, defines : {FALSE}, mutates : {FALSE},
          pos : {<<>>}, neg : {<<>>}]

\* the variables of run_evolution while evaluate_file is studied on its own
DriverIdle ==
    /\ population_size = 1
    /\ num_generations = 1
    /\ original_lines = None
    /\ pc = "idle"
    /\ population = <<>>
    /\ new_population = <<>>
    /\ scored_population = <<>>
    /\ survivors = <<>>
    /\ generation = 0
    /\ final_generation = 0
    /\ best_variant = None
    /\ best_fitness = 0
    /\ parent = None
    /\ attempts = 0
    /\ exception = "none"
    /\ returned = None
    /\ repaired_solution = None
    /\ best_attempt = None
    /\ report_summary = None
    /\ temp_dir = TRUE

\* evaluate_file is entered: fitness = 0.0 (test_harness.py:82)
InitHarness ==
    /\ LoadTests(MaxCases, 1..MaxWeight)
    /\ DriverIdle
    /\ LocIdle
    /\ MutIdle
    /\ SessionIdle
    /\ HeapIdle
    /\ weighted_lines = <<>>
    /\ candidate \in Candidates
    /\ hpc = "load"
    /\ test_index = 0
    /\ fitness = 0
    /\ call = "idle"
    /\ future = "none"
    /\ worker = "none"
    /\ outcome = None
    /\ eval_result = None
    /\ escaped = "none"
    /\ args = None
    /\ invoked = <<>>

\* the cases and the weight of the loop evaluate_file is in
current_tests == IF hpc = "positive" THEN positive_tests ELSE negative_tests
current_weight == IF hpc = "positive" THEN positive_weight ELSE negative_weight
\* the entry point's behaviour on the current case
current_behaviour ==
    IF hpc = "positive" THEN candidate.pos[test_index] ELSE candidate.neg[test_index]
\* the value the entry point returns on the current case
returned_value ==
    IF current_behaviour = "wrong"
    THEN current_tests[test_index].expected + 1
    ELSE current_tests[test_index].expected

in_loop == hpc \in {"positive", "negative"}

\* the module is loaded and the entry point looked up (test_harness.py:85-103):
\* a load error is caught at 154-159, a missing function returns 0.0, and an
\* exception that is no Exception (SystemExit) is caught nowhere
LoadModule ==
    /\ hpc = "load"
    /\ IF candidate.loads = "exits"
       THEN /\ hpc' = "raised"
            /\ escaped' = "SystemExit"
            /\ UNCHANGED <<test_index, eval_result>>
       ELSE IF candidate.loads = "ok" /\ candidate.defines
       THEN /\ hpc' = "positive"
            /\ test_index' = 1
            /\ UNCHANGED <<eval_result, escaped>>
       ELSE /\ hpc' = "returned"
            /\ eval_result' = fitness
            /\ UNCHANGED <<test_index, escaped>>
    /\ UNCHANGED <<candidate, fitness, call, future, worker, outcome, args, invoked>>
    /\ UNCHANGED <<harness_fields, driver_vars, weighted_lines, scored_population, loc_vars,
                   mut_vars, session_vars, heap_vars>>

\* mutant of deep_copy_inputs: the stored argument list itself is handed over
aliased_inputs(inputs) == [shared |-> TRUE, value |-> inputs]

\* _deep_copy_inputs: a new list, equal to the stored one and sharing nothing
\* with it
deep_copy_inputs(inputs) == [shared |-> FALSE, value |-> inputs]

\* what a candidate that mutates its arguments leaves in a list: a.append(a[0])
mutated_list(inputs) == Append(inputs, inputs[1])

\* the cases of a class after the entry point ran on list, handed over for case k
after_run(tests, list, k, mutates) ==
    IF mutates /\ list.shared
    THEN [tests EXCEPT ![k].input = mutated_list(@)]
    ELSE tests

\* the loop body up to executor.submit(func, *args): the inputs are copied
\* (test_harness.py:109, 133) and the worker is started (test_harness.py:181)
Submit ==
    /\ in_loop /\ call = "idle"
    /\ test_index <= Len(current_tests)
    /\ args' = deep_copy_inputs(current_tests[test_index].input)
    /\ invoked' = Append(invoked, <<hpc, test_index>>)
    /\ call' = "waiting"
    /\ future' = "pending"
    /\ worker' = "running"
    /\ outcome' = None
    /\ UNCHANGED <<candidate, hpc, test_index, fitness, eval_result, escaped>>
    /\ UNCHANGED <<harness_fields, driver_vars, weighted_lines, scored_population, loc_vars,
                   mut_vars, session_vars, heap_vars>>

\* the worker thread: the entry point returns or raises.  A slow invocation
\* ends only after the deadline has expired; a diverging one never ends.
\* What the entry point did to its argument list is done when it ends.
WorkerFinishes ==
    /\ worker = "running"
    /\ \/ /\ current_behaviour \in {"expected", "wrong"}
          /\ future' = "value"
       \/ /\ current_behaviour = "raises"
          /\ future' = "exception"
       \/ /\ current_behaviour = "exits"
          /\ future' = "base_exception"
       \/ /\ current_behaviour = "slow"
          /\ call = "exiting"
          /\ future' = "value"
    /\ worker' = "finished"
    /\ args' = IF candidate.mutates THEN [args EXCEPT !.value = mutated_list(@)] ELSE args
    /\ positive_tests' = IF hpc = "positive"
                         THEN after_run(positive_tests, args, test_index, candidate.mutates)
                         ELSE positive_tests
    /\ negative_tests' = IF hpc = "negative"
                         THEN after_run(negative_tests, args, test_index, candidate.mutates)
                         ELSE negative_tests
    /\ UNCHANGED <<candidate, hpc, test_index, fitness, call, outcome, eval_result,
                   escaped, invoked>>
    /\ UNCHANGED <<max_fitness, positive_weight, negative_weight, driver_vars,
                   weighted_lines, scored_population, loc_vars, mut_vars, session_vars, heap_vars>>

\* future.result(timeout=timeout) returns the value or re-raises the exception
\* (test_harness.py:183-184, 187-188)
FutureResult ==
    /\ call = "waiting"
    /\ future \in {"value", "exception"}
    /\ outcome' = IF future = "value"
                  THEN [success |-> TRUE, result |-> returned_value]
                  ELSE [success |-> FALSE, result |-> "error"]
    /\ call' = "exiting"
    /\ UNCHANGED <<candidate, hpc, test_index, fitness, future, worker, eval_result,
                   escaped, args, invoked>>
    /\ UNCHANGED <<harness_fields, driver_vars, weighted_lines, scored_population, loc_vars,
                   mut_vars, session_vars, heap_vars>>

\* future.result re-raises an exception that is no Exception: neither
\* _run_with_timeout (test_harness.py:185-188) nor evaluate_file
\* (test_harness.py:126, 150, 154-159) has a handler for it.  The worker has
\* ended, so leaving the "with" block does not wait.
FutureEscapes ==
    /\ call = "waiting"
    /\ future = "base_exception"
    /\ hpc' = "raised"
    /\ escaped' = "SystemExit"
    /\ call' = "idle"
    /\ worker' = "none"
    /\ future' = "none"
    /\ UNCHANGED <<candidate, test_index, fitness, outcome, eval_result, args, invoked>>
    /\ UNCHANGED <<harness_fields, driver_vars, weighted_lines, scored_population, loc_vars,
                   mut_vars, session_vars, heap_vars>>

\* the deadline expires first: concurrent.futures.TimeoutError (test_harness.py:185-186)
FutureTimeout ==
    /\ call = "waiting"
    /\ future = "pending"
    /\ current_behaviour \in {"slow", "diverges"}
    /\ outcome' = [success |-> FALSE, result |-> "Timeout"]
    /\ call' = "exiting"
    /\ UNCHANGED <<candidate, hpc, test_index, fitness, future, worker, eval_result,
                   escaped, args, invoked>>
    /\ UNCHANGED <<harness_fields, driver_vars, weighted_lines, scored_population, loc_vars,
                   mut_vars, session_vars, heap_vars>>

\* the fitness after the case whose invocation gave (success, result)
credit(fit, pair, expected, weight) ==
    IF pair.success /\ pair.result = expected THEN fit + weight ELSE fit

\* the "with ThreadPoolExecutor" block is left: __exit__ is shutdown(wait=True),
\* which joins the worker thread.  Then the rest of the loop body
\* (test_harness.py:113-125, 137-149) and the next case.
ExecutorExit ==
    /\ call = "exiting"
    /\ worker = "finished"
    /\ fitness' = credit(fitness, outcome, current_tests[test_index].expected,
                         current_weight)
    /\ test_index' = test_index + 1
    /\ call' = "idle"
    /\ worker' = "none"
    /\ future' = "none"
    /\ UNCHANGED <<candidate, hpc, outcome, eval_result, escaped, args, invoked>>
    /\ UNCHANGED <<harness_fields, driver_vars, weighted_lines, scored_population, loc_vars,
                   mut_vars, session_vars, heap_vars>>

\* the positive loop is exhausted: the negative loop begins
PositiveDone ==
    /\ hpc = "positive" /\ call = "idle"
    /\ test_index > Len(positive_tests)
    /\ hpc' = "negative"
    /\ test_index' = 1
    /\ UNCHANGED <<candidate, fitness, call, future, worker, outcome, eval_result,
                   escaped, args, invoked>>
    /\ UNCHANGED <<harness_fields, driver_vars, weighted_lines, scored_population, loc_vars,
                   mut_vars, session_vars, heap_vars>>

\* the negative loop is exhausted: "return fitness" (test_harness.py:161)
ReturnFitness ==
    /\ hpc = "negative" /\ call = "idle"
    /\ test_index > Len(negative_tests)
    /\ hpc' = "returned"
    /\ eval_result' = fitness
    /\ UNCHANGED <<candidate, test_index, fitness, call, future, worker, outcome,
                   escaped, args, invoked>>
    /\ UNCHANGED <<harness_fields, driver_vars, weighted_lines, scored_population, loc_vars,
                   mut_vars, session_vars, heap_vars>>

NextHarness ==
    \/ LoadModule
    \/ Submit
    \/ WorkerFinishes
    \/ FutureResult
    \/ FutureEscapes
    \/ FutureTimeout
    \/ ExecutorExit
    \/ PositiveDone
    \/ ReturnFitness

SpecHarness == InitHarness /\ [][NextHarness]_vars

----------------------------------------------------------------------------
(* TestHarness.run_fault_localization, case by case *)

\* what get_coverage can return: any set of lines of the patient file
Traces == SUBSET (1..MaxLine)

\* the patient is loaded: lines_p = set(), lines_f = set() (test_harness.py:239-240)
InitLoc ==
    /\ \E np \in 0..MaxCases, nn \in 0..MaxCases :
          /\ positive_tests = TestCases(np)
          /\ negative_tests = TestCases(nn)
          /\ positive_weight = 1
          /\ negative_weight = 1
          /\ max_fitness = np + nn
    /\ DriverIdle
    /\ EvalIdle
    /\ MutIdle
    /\ SessionIdle
    /\ HeapIdle
    /\ weighted_lines = <<>>
    /\ lpc = "positive"
    /\ traced = 0
    /\ pos_traces = {}
    /\ neg_traces = {}
    /\ lines_p = {}
    /\ lines_f = {}

\* one positive case is traced: the patient runs on a copy of the inputs
\* (test_harness.py:244), which it may change, and lines_p.update(lines)
TracePositive ==
    /\ lpc = "positive"
    /\ traced < Len(positive_tests)
    /\ \E trace \in Traces, mutates \in BOOLEAN :
          LET inputs == deep_copy_inputs(positive_tests[traced + 1].input)
          IN /\ positive_tests' = after_run(positive_tests, inputs, traced + 1, mutates)
             /\ pos_traces' = pos_traces \cup {trace}
             /\ lines_p' = lines_p \cup trace
    /\ traced' = traced + 1
    /\ UNCHANGED <<lpc, neg_traces, lines_f, weighted_lines>>
    /\ UNCHANGED <<max_fitness, positive_weight, negative_tests, negative_weight,
                   driver_vars, scored_population, eval_vars, mut_vars, session_vars, heap_vars>>

\* the positive loop is exhausted
TracePositiveDone ==
    /\ lpc = "positive"
    /\ traced >= Len(positive_tests)
    /\ lpc' = "negative"
    /\ traced' = 0
    /\ UNCHANGED <<pos_traces, neg_traces, lines_p, lines_f, weighted_lines>>
    /\ UNCHANGED <<harness_fields, driver_vars, scored_population, eval_vars,
                   mut_vars, session_vars, heap_vars>>

\* one negative case is traced: the patient runs on a copy of the inputs
\* (test_harness.py:250), which it may change, and lines_f.update(lines)
TraceNegative ==
    /\ lpc = "negative"
    /\ traced < Len(negative_tests)
    /\ \E trace \in Traces, mutates \in BOOLEAN :
          LET inputs == deep_copy_inputs(negative_tests[traced + 1].input)
          IN /\ negative_tests' = after_run(negative_tests, inputs, traced + 1, mutates)
             /\ neg_traces' = neg_traces \cup {trace}
             /\ lines_f' = lines_f \cup trace
    /\ traced' = traced + 1
    /\ UNCHANGED <<lpc, pos_traces, lines_p, weighted_lines>>
    /\ UNCHANGED <<max_fitness, positive_tests, positive_weight, negative_weight,
                   driver_vars, scored_population, eval_vars, mut_vars, session_vars, heap_vars>>

\* the weights are computed and returned (test_harness.py:255-268)
ComputeWeights ==
    /\ lpc = "negative"
    /\ traced >= Len(negative_tests)
    /\ weighted_lines' = weigh_lines(lines_p, lines_f)
    /\ lpc' = "returned"
    /\ UNCHANGED <<traced, pos_traces, neg_traces, lines_p, lines_f>>
    /\ UNCHANGED <<harness_fields, driver_vars, scored_population, eval_vars,
                   mut_vars, session_vars, heap_vars>>

NextLoc ==
    \/ TracePositive
    \/ TracePositiveDone
    \/ TraceNegative
    \/ ComputeWeights

SpecLoc == InitLoc /\ [][NextLoc]_vars

----------------------------------------------------------------------------
(* The battery under run_fault_localization and under evaluate_file, called  *)
(* on one variant file after the other                                        *)

\* the variant files whose entry point changes the argument list it is given
\* before it returns, raises, exits or is stopped by the deadline, and those
\* without an entry point.  (A wrong value differs from the expected one only
\* in the comparison that follows, and no case follows one that diverges.)
Mutators ==
    {file \in Candidates :
        \/ ~file.defines
        \/ /\ file.mutates
           /\ \A k \in DOMAIN file.pos : file.pos[k] \in {"expected", "raises", "exits", "slow"}
           /\ \A k \in DOMAIN file.neg : file.neg[k] \in {"expected", "raises", "exits", "slow"}}

\* run_fault_localization is entered, or evaluate_file is on a battery of at
\* most MaxCases + 1 cases in all, whose weights are 1
InitInputs ==
    \/ InitLoc
    \/ /\ InitHarness
       /\ Len(positive_tests) + Len(negative_tests) <= MaxCases + 1
       /\ positive_weight = 1
       /\ negative_weight = 1
       /\ max_fitness = Len(positive_tests) + Len(negative_tests)
       /\ candidate \in Mutators

\* evaluate_population's loop: evaluate_file has returned and is called on the
\* next variant file (evolution.py:304-310)
NextVariant ==
    /\ hpc = "returned"
    /\ candidate' \in Mutators
    /\ hpc' = "load"
    /\ test_index' = 0
    /\ fitness' = 0
    /\ call' = "idle"
    /\ future' = "none"
    /\ worker' = "none"
    /\ outcome' = None
    /\ eval_result' = None
    /\ args' = None
    /\ invoked' = <<>>
    /\ UNCHANGED escaped
    /\ UNCHANGED <<harness_fields, driver_vars, weighted_lines, scored_population, loc_vars,
                   mut_vars, session_vars, heap_vars>>

NextInputs ==
    \/ NextHarness
    \/ NextLoc
    \/ NextVariant

SpecInputs == InitInputs /\ [][NextInputs]_vars

----------------------------------------------------------------------------
(* The mutation engine: mutation.py.  A line is a sequence of characters,    *)
(* a program a sequence of lines.  A random draw is a choice among the       *)
(* values the operator can return, so each operator is the set of them.      *)

\* a list of lines as a value that may also be None
list_of(program) == [lines |-> program]

\* str.isspace() on the characters program lines are made of here
is_space(c) == c \in {" ", "\n"}

RECURSIVE lstrip(_)
\* str.lstrip()
lstrip(s) == IF s # <<>> /\ is_space(Head(s)) THEN lstrip(Tail(s)) ELSE s

RECURSIVE rstrip(_)
\* str.rstrip()
rstrip(s) ==
    IF s # <<>> /\ is_space(s[Len(s)]) THEN rstrip(SubSeq(s, 1, Len(s) - 1)) ELSE s

\* str.strip()
strip(s) == rstrip(lstrip(s))

\* mutant of indentation: the line's leading whitespace is dropped
indentation_dropped(line) == <<>>

\* line[:len(line) - len(line.lstrip())]
indentation(line) == SubSeq(line, 1, Len(line) - Len(lstrip(line)))

\* lines[idx], idx counted from 0 as in the code
at(program, idx) == program[idx + 1]

\* the copy of the program with lines[idx] = line
with_line(program, idx, line) == [program EXCEPT ![idx + 1] = line]

\* mutant of mutate_delete: the line is removed from the list
mutate_delete_removed(program, idx) ==
    SubSeq(program, 1, idx) \o SubSeq(program, idx + 2, Len(program))

\* mutate_delete: the line becomes "pass" at the same indentation
mutate_delete(program, idx) ==
    with_line(program, idx, indentation(at(program, idx)) \o <<"p","a","s","s","\n">>)

\* mutant of mutate_insert: the line is inserted before the target line
mutate_insert_before(program, idx, src) ==
    LET inserted_line == indentation(at(program, idx)) \o strip(at(program, src)) \o <<"\n">>
    IN SubSeq(program, 1, idx) \o <<inserted_line>>
         \o SubSeq(program, idx + 1, Len(program))

\* mutate_insert: the stripped source line, at the target's indentation, is
\* inserted after the target
mutate_insert(program, idx, src) ==
    LET inserted_line == indentation(at(program, idx)) \o strip(at(program, src)) \o <<"\n">>
    IN SubSeq(program, 1, idx + 1) \o <<inserted_line>>
         \o SubSeq(program, idx + 2, Len(program))

\* mutant of mutate_swap: the two lines change places with their indentation
mutate_swap_whole(program, idx_a, idx_b) ==
    LET line_a == at(program, idx_a)
        line_b == at(program, idx_b)
    IN IF strip(line_a) = <<>> \/ strip(line_b) = <<>>
       THEN program
       ELSE with_line(with_line(program, idx_a, line_b), idx_b, line_a)

\* mutate_swap: the two lines exchange their stripped text and keep their
\* indentation; nothing changes when either is blank.  The two assignments
\* are made in the code's order.
mutate_swap(program, idx_a, idx_b) ==
    LET line_a == at(program, idx_a)
        line_b == at(program, idx_b)
    IN IF strip(line_a) = <<>> \/ strip(line_b) = <<>>
       THEN program
       ELSE with_line(with_line(program, idx_a,
                                indentation(line_a) \o strip(line_b) \o <<"\n">>),
                      idx_b, indentation(line_b) \o strip(line_a) \o <<"\n">>)

\* COMPARISON_PATTERN: the alternatives in the order the regex tries them
COMPARISON_PATTERN == <<<<"<","=">>, <<">","=">>, <<"=","=">>, <<"!","=">>, <<"<">>, <<">">>>>

\* COMPARISON_MUTATIONS[original_op]
COMPARISON_MUTATIONS(original_op) ==
    CASE original_op = <<"<">> -> {<<">">>, <<"<","=">>, <<"!","=">>}
      [] original_op = <<">">> -> {<<"<">>, <<">","=">>, <<"!","=">>}
      [] original_op = <<"<","=">> -> {<<">","=">>, <<"<">>, <<"=","=">>}
      [] original_op = <<">","=">> -> {<<"<","=">>, <<">">>, <<"=","=">>}
      [] original_op = <<"=","=">> -> {<<"!","=">>, <<"<","=">>, <<">","=">>}
      [] original_op = <<"!","=">> -> {<<"=","=">>, <<"<">>, <<">">>}

\* BOOLEAN_PATTERN
BOOLEAN_PATTERN == <<<<" ","a","n","d"," ">>, <<" ","o","r"," ">>>>

\* BOOLEAN_SWAPS[original_op]
BOOLEAN_SWAPS(original_op) ==
    CASE original_op = <<" ","a","n","d"," ">> -> <<" ","o","r"," ">>
      [] original_op = <<" ","o","r"," ">> -> <<" ","a","n","d"," ">>

\* the text has word w at offset i (counted from 0)
matches_at(text, i, w) ==
    i + Len(w) <= Len(text) /\ SubSeq(text, i + 1, i + Len(w)) = w

RECURSIVE finditer(_, _, _)
\* pattern.finditer(text) from offset i: the non-overlapping matches, left to
\* right, each the first alternative that matches at its offset
finditer(pattern, text, i) ==
    IF i >= Len(text) THEN <<>>
    ELSE LET hits == SelectSeq(pattern, LAMBDA w : matches_at(text, i, w))
         IN IF hits = <<>> THEN finditer(pattern, text, i + 1)
            ELSE <<[start |-> i, end |-> i + Len(hits[1]), group |-> hits[1]]>>
                   \o finditer(pattern, text, i + Len(hits[1]))

\* target_line[:match.start()] + replacement_op + target_line[match.end():]
replace_match(line, match, replacement_op) ==
    SubSeq(line, 1, match.start) \o replacement_op
      \o SubSeq(line, match.end + 1, Len(line))

\* mutate_expression: one comparison operator of the line, any of its matches,
\* becomes any of its replacements; None when the line has none
mutate_expression(program, idx) ==
    LET target_line == at(program, idx)
        matches == finditer(COMPARISON_PATTERN, target_line, 0)
    IN IF matches = <<>> THEN {None}
       ELSE UNION {{list_of(with_line(program, idx,
                                      replace_match(target_line, matches[k], replacement_op))) :
                      replacement_op \in COMPARISON_MUTATIONS(matches[k].group)} :
                   k \in 1..Len(matches)}

\* mutate_boolean: one " and " of the line becomes " or ", or the reverse; None
\* when the line has neither
mutate_boolean(program, idx) ==
    LET target_line == at(program, idx)
        matches == finditer(BOOLEAN_PATTERN, target_line, 0)
    IN IF matches = <<>> THEN {None}
       ELSE {list_of(with_line(program, idx,
                               replace_match(target_line, matches[k],
                                             BOOLEAN_SWAPS(matches[k].group)))) :
               k \in 1..Len(matches)}

RECURSIVE cumulative(_, _)
\* the value of "current" after the first i pairs of the roulette loop
cumulative(weighted, i) ==
    IF i = 0 THEN 0 ELSE cumulative(weighted, i - 1) + weighted[i][2]

\* mutant of roulette: the loop stops as soon as "current >= r"
roulette_inclusive(weighted, r) ==
    LET stops == {i \in 1..Len(weighted) : cumulative(weighted, i) >= r}
    IN IF stops = {} THEN weighted[1][1]
       ELSE weighted[CHOOSE i \in stops : \A j \in stops : i <= j][1]

\* the index the roulette loop returns for the draw r, lines[0] as the fallback
roulette(weighted, r) ==
    LET stops == {i \in 1..Len(weighted) : cumulative(weighted, i) > r}
    IN IF stops = {} THEN weighted[1][1]
       ELSE weighted[CHOOSE i \in stops : \A j \in stops : i <= j][1]

\* r = random.uniform(0, total_weight) lies in [0, total_weight]; the loop
\* compares it with the running sums only, so one draw stands for all draws
\* between the same two sums: each running sum, and the next tenth after it
uniform(weighted, total_weight) ==
    {r \in 0..total_weight :
        \E i \in 0..Len(weighted) : r \in {cumulative(weighted, i),
                                            cumulative(weighted, i) + 1}}

\* select_line_by_weight: the draws it can make (in tenths) and the index it
\* returns for each; no r is drawn when the weights add up to zero
select_line_by_weight(weighted) ==
    LET total_weight == cumulative(weighted, Len(weighted))
    IN IF total_weight = 0
       THEN {[r |-> None, line_idx |-> weighted[i][1]] : i \in 1..Len(weighted)}
       ELSE {[r |-> r, line_idx |-> roulette(weighted, r)] :
               r \in uniform(weighted, total_weight)}

----------------------------------------------------------------------------
(* is_valid_syntax: ast.parse on the program's text.  The parser is modelled *)
(* on the part of Python's grammar the patients and their variants are       *)
(* written in: "pass", "return", assignments and expression statements over  *)
(* names with comparison, shift and boolean operators, and "if", "while" and *)
(* "def" headers whose blocks are the more indented lines that follow.       *)

RECURSIVE save_program_to_string(_)
\* "".join(lines)
save_program_to_string(program) ==
    IF program = <<>> THEN <<>>
    ELSE Head(program) \o save_program_to_string(Tail(program))

RECURSIVE physical_lines(_, _)
\* the text cut at its newlines; current is the line being read
physical_lines(text, current) ==
    IF text = <<>> THEN <<current>>
    ELSE IF Head(text) = "\n" THEN <<current>> \o physical_lines(Tail(text), <<>>)
    ELSE physical_lines(Tail(text), Append(current, Head(text)))

Letters == {"a", "b", "c", "d", "e", "f", "g", "h", "i", "j", "k", "l", "m",
            "n", "o", "p", "q", "r", "s", "t", "u", "v", "w", "x", "y", "z"}

\* the token a word is: a keyword, or a name
word_token(w) ==
    CASE w = <<"i","f">> -> "if"
      [] w = <<"w","h","i","l","e">> -> "while"
      [] w = <<"d","e","f">> -> "def"
      [] w = <<"p","a","s","s">> -> "pass"
      [] w = <<"r","e","t","u","r","n">> -> "return"
      [] w = <<"a","n","d">> -> "and"
      [] w = <<"o","r">> -> "or"
      [] OTHER -> "NAME"

RECURSIVE word_end(_, _)
\* the position after the run of letters that starts at position i
word_end(text, i) ==
    IF i <= Len(text) /\ text[i] \in Letters THEN word_end(text, i + 1) ELSE i

\* the character at position i, or "" past the end
char_at(text, i) == IF i <= Len(text) THEN text[i] ELSE ""

RECURSIVE tokens(_, _)
\* the tokens of a logical line from position i on, the longest operator first
tokens(text, i) ==
    IF i > Len(text) THEN <<>>
    ELSE LET c == text[i]
             d == char_at(text, i + 1)
             e == char_at(text, i + 2)
         IN CASE c = " " -> tokens(text, i + 1)
              [] c \in Letters ->
                   <<word_token(SubSeq(text, i, word_end(text, i) - 1))>>
                     \o tokens(text, word_end(text, i))
              [] c \in {"<", ">"} /\ d = c /\ e = "=" -> <<"AUGASSIGN">> \o tokens(text, i + 3)
              [] c \in {"<", ">"} /\ d = c /\ e # "=" -> <<"SHIFT">> \o tokens(text, i + 2)
              [] c \in {"<", ">", "=", "!"} /\ d = "=" -> <<"COMPARE">> \o tokens(text, i + 2)
              [] c = "<" /\ d = ">" -> <<"ERRORTOKEN">> \o tokens(text, i + 2)
              [] c \in {"<", ">"} /\ d \notin {c, "="} /\ ~(c = "<" /\ d = ">") ->
                   <<"COMPARE">> \o tokens(text, i + 1)
              [] c = "=" /\ d # "=" -> <<"ASSIGN">> \o tokens(text, i + 1)
              [] c \in {":", "(", ")"} -> <<c>> \o tokens(text, i + 1)
              [] OTHER -> <<"ERRORTOKEN">> \o tokens(text, i + 1)

\* names joined by binary operators
is_expression(toks) ==
    /\ Len(toks) % 2 = 1
    /\ \A k \in 1..Len(toks) :
         IF k % 2 = 1 THEN toks[k] = "NAME"
         ELSE toks[k] \in {"COMPARE", "SHIFT", "and", "or"}

\* what a logical line is: a simple statement, the header of a block, or an error
statement_kind(toks) ==
    CASE toks = <<"pass">> -> "simple"
      [] toks = <<"return">> -> "simple"
      [] Len(toks) >= 2 /\ toks[1] = "return" /\ is_expression(Tail(toks)) -> "simple"
      [] Len(toks) >= 3 /\ toks[1] = "NAME" /\ toks[2] = "ASSIGN"
           /\ is_expression(SubSeq(toks, 3, Len(toks))) -> "simple"
      [] is_expression(toks) -> "simple"
      [] Len(toks) >= 3 /\ toks[1] \in {"if", "while"} /\ toks[Len(toks)] = ":"
           /\ is_expression(SubSeq(toks, 2, Len(toks) - 1)) -> "header"
      [] toks = <<"def", "NAME", "(", "NAME", ")", ":">> -> "header"
      [] OTHER -> "error"

\* the logical lines of the text: the physical lines that are not blank, each
\* with the width of its indentation and its kind
logical_lines(text) ==
    LET phys == SelectSeq(physical_lines(text, <<>>), LAMBDA l : strip(l) # <<>>)
    IN [k \in 1..Len(phys) |->
          [indent |-> Len(indentation(phys[k])),
           kind |-> statement_kind(tokens(phys[k], 1))]]

RECURSIVE dedent(_, _)
\* the indentation stack after the levels deeper than width are closed
dedent(stack, width) ==
    IF stack[Len(stack)] > width THEN dedent(SubSeq(stack, 1, Len(stack) - 1), width)
    ELSE stack

RECURSIVE parses(_, _, _, _)
\* the logical lines from k on form blocks: a header is followed by a deeper
\* line, no other line is deeper than the open block, and a dedent returns to
\* an open level
parses(logical, k, stack, after_header) ==
    IF k > Len(logical) THEN ~after_header
    ELSE LET width == logical[k].indent
             top == stack[Len(stack)]
             opened == IF after_header THEN Append(stack, width) ELSE dedent(stack, width)
         IN /\ IF after_header THEN width > top ELSE width <= top
            /\ opened[Len(opened)] = width
            /\ logical[k].kind # "error"
            /\ parses(logical, k + 1, opened, logical[k].kind = "header")

\* is_valid_syntax(lines): ast.parse raised no SyntaxError
is_valid_syntax(program) ==
    parses(logical_lines(save_program_to_string(program)), 1, <<0>>, FALSE)

----------------------------------------------------------------------------
(* apply_random_mutation *)

\* the five operators: random.choice draws from a list that names
\* "expression" and "boolean" twice
Operators == {"delete", "insert", "swap", "expression", "boolean"}

\* the values the operator o can return on target t and source s
operator_outputs(program, o, t, s) ==
    CASE o = "delete" -> {list_of(mutate_delete(program, t))}
      [] o = "insert" -> {list_of(mutate_insert(program, t, s))}
      [] o = "swap" -> {list_of(mutate_swap(program, t, s))}
      [] o = "expression" -> mutate_expression(program, t)
      [] o = "boolean" -> mutate_boolean(program, t)

\* mutant of syntax_check: the operator's output is returned as it is
syntax_check_skipped(output) == output

\* the end of apply_random_mutation: None from the operator is returned at
\* once, an output that does not parse is discarded
syntax_check(output) ==
    IF output # None /\ is_valid_syntax(output.lines) THEN output ELSE None

\* apply_random_mutation(lines, weighted_lines_info): what one call can draw
\* and return
apply_random_mutation(program, weighted_lines_info) ==
    LET cands == candidates(weighted_lines_info)
        picks == select_line_by_weight(cands)
        draws == {p.line_idx : p \in picks} \X {cands[i][1] : i \in 1..Len(cands)}
                   \X Operators
    IN UNION {{[r |-> p.r, target_idx |-> d[1], source_idx |-> d[2], op |-> d[3],
                mutated_lines |-> ending.output, result |-> ending.result] :
                 p \in {q \in picks : q.line_idx = d[1]},
                 ending \in {[output |-> output, result |-> syntax_check(output)] :
                               output \in operator_outputs(program, d[3], d[1], d[2])}} :
              d \in draws}

----------------------------------------------------------------------------
(* apply_random_mutation on the variants of two patients *)

\* the patients: their lines, and the lines a trace of theirs can report
Patients ==
    {[lines |-> <<<<"d","e","f"," ","f","(","a",")",":","\n">>,
                  <<" ","i","f"," ","a","<","b",":","\n">>,
                  <<" "," ","r","e","t","u","r","n"," ","a","\n">>,
                  <<" ","r","e","t","u","r","n"," ","b","\n">>>>,
      executable |-> {2, 3, 4}],
     [lines |-> <<<<"d","e","f"," ","f","(","a",")",":","\n">>,
                  <<" ","c","=","a","<","<","b","\n">>,
                  <<"\n">>,
                  <<" ","i","f"," ","a","<","=","b"," ","o","r"," ","c",":","\n">>,
                  <<" "," ","p","a","s","s","\n">>,
                  <<" ","r","e","t","u","r","n"," ","b","a","n","d","\n">>>>,
      executable |-> {2, 4, 5, 6}]}

\* the coverage sets (P, F) of a patient: every executable line fails or all
\* but the first, and the passing tests cover none of them or all; or no test
\* fails and the passing tests cover every executable line
Coverages(patient) ==
    LET first == CHOOSE l \in patient.executable : \A k \in patient.executable : l <= k
    IN ({{}, patient.executable} \X {patient.executable, patient.executable \ {first}})
         \cup {<<patient.executable, {}>>}

\* apply_random_mutation is called on a patient with its weighted lines
InitMut ==
    /\ positive_tests = <<>>
    /\ negative_tests = <<>>
    /\ positive_weight = 1
    /\ negative_weight = 1
    /\ max_fitness = 0
    /\ DriverIdle
    /\ EvalIdle
    /\ LocIdle
    /\ CrossIdle
    /\ SessionIdle
    /\ HeapIdle
    /\ \E patient \in Patients : \E cover \in Coverages(patient) :
          /\ lines = patient.lines
          /\ weighted_lines = weigh_lines(cover[1], cover[2])
    /\ mpc = "called"
    /\ drawn = None
    /\ target_idx = None
    /\ source_idx = None
    /\ op = None
    /\ mutated_lines = None
    /\ result = None
    /\ calls = 0

\* one call of apply_random_mutation, from its draws to its return
ApplyRandomMutation ==
    /\ mpc = "called"
    /\ \E call_ \in apply_random_mutation(lines, weighted_lines) :
          /\ drawn' = call_.r
          /\ target_idx' = call_.target_idx
          /\ source_idx' = call_.source_idx
          /\ op' = call_.op
          /\ mutated_lines' = call_.mutated_lines
          /\ result' = call_.result
    /\ mpc' = "returned"
    /\ UNCHANGED <<lines, calls>>
    /\ UNCHANGED <<harness_fields, driver_vars, weighted_lines, scored_population,
                   eval_vars, loc_vars, cross_vars, session_vars, heap_vars>>

\* the caller's retry loop: after None the same variant is mutated again
\* (evolution.py:283-285, 351-353)
Retry ==
    /\ mpc = "returned"
    /\ result = None
    /\ mpc' = "called"
    /\ drawn' = None
    /\ target_idx' = None
    /\ source_idx' = None
    /\ op' = None
    /\ mutated_lines' = None
    /\ UNCHANGED <<lines, result, calls>>
    /\ UNCHANGED <<harness_fields, driver_vars, weighted_lines, scored_population,
                   eval_vars, loc_vars, cross_vars, session_vars, heap_vars>>

\* repopulate: a variant that was returned is a parent of a later generation
\* (evolution.py:347-349)
Breed ==
    /\ mpc = "returned"
    /\ result # None
    /\ calls < MaxBreed
    /\ lines' = result.lines
    /\ calls' = calls + 1
    /\ mpc' = "called"
    /\ drawn' = None
    /\ target_idx' = None
    /\ source_idx' = None
    /\ op' = None
    /\ mutated_lines' = None
    /\ result' = None
    /\ UNCHANGED <<harness_fields, driver_vars, weighted_lines, scored_population,
                   eval_vars, loc_vars, cross_vars, session_vars, heap_vars>>

NextMut ==
    \/ ApplyRandomMutation
    \/ Retry
    \/ Breed

SpecMut == InitMut /\ [][NextMut]_vars

----------------------------------------------------------------------------
(* crossover and crossover_single (mutation.py:212-292) *)

\* the pivots tried before crossover gives up (max_attempts, mutation.py:247)
max_attempts == 5

\* the parents crossover is called on: no line, one line, and programs of two
\* to six lines
Parents ==
    {<<>>,
     <<<<"p","a","s","s","\n">>>>,
     <<<<"a","=","b","\n">>, <<"b","=","a","\n">>>>,
     <<<<"d","e","f"," ","f","(","a",")",":","\n">>, <<" ","i","f"," ","a","<","b",":","\n">>, <<" "," ","r","e","t","u","r","n"," ","a","\n">>, <<" ","r","e","t","u","r","n"," ","b","\n">>>>,
     <<<<"d","e","f"," ","f","(","a",")",":","\n">>, <<" ","p","a","s","s","\n">>, <<" ","i","f"," ","a","<","b",":","\n">>, <<" "," ","p","a","s","s","\n">>, <<" "," ","p","a","s","s","\n">>>>,
     <<<<"d","e","f"," ","f","(","a",")",":","\n">>, <<" ","c","=","a","<","<","b","\n">>, <<"\n">>, <<" ","i","f"," ","a","<","=","b"," ","o","r"," ","c",":","\n">>, <<" "," ","p","a","s","s","\n">>,
       <<" ","r","e","t","u","r","n"," ","b","a","n","d","\n">>>>}

\* min(len(parent_a), len(parent_b))
min_len(a, b) == IF Len(a) <= Len(b) THEN Len(a) ELSE Len(b)

\* mutant of one_point: the head and the tail come from the same parent
one_point_same(head, tail, p) ==
    SubSeq(head, 1, p) \o SubSeq(head, p + 1, Len(head))

\* head[:p] + tail[p:]
one_point(head, tail, p) ==
    SubSeq(head, 1, p) \o SubSeq(tail, p + 1, Len(tail))

\* mutant of too_short: only an empty parent is refused
too_short_empty_only(a, b) == a = <<>> \/ b = <<>>

\* the guards of mutation.py:235-244: an empty parent, or min_len <= 1
too_short(a, b) == a = <<>> \/ b = <<>> \/ min_len(a, b) <= 1

\* crossover is called on two parents
InitCross ==
    /\ positive_tests = <<>>
    /\ negative_tests = <<>>
    /\ positive_weight = 1
    /\ negative_weight = 1
    /\ max_fitness = 0
    /\ weighted_lines = <<>>
    /\ DriverIdle
    /\ EvalIdle
    /\ LocIdle
    /\ EngineIdle
    /\ SessionIdle
    /\ HeapIdle
    /\ parent_a \in Parents
    /\ parent_b \in Parents
    /\ cpc = "called"
    /\ attempt = 0
    /\ pivot = None
    /\ offspring_1 = None
    /\ offspring_2 = None
    /\ single = None

\* crossover refuses the parents (mutation.py:235-244)
RefuseParents ==
    /\ cpc = "called"
    /\ too_short(parent_a, parent_b)
    /\ cpc' = "returned"
    /\ offspring_1' = None
    /\ offspring_2' = None
    /\ UNCHANGED <<parent_a, parent_b, attempt, pivot, single>>
    /\ UNCHANGED <<harness_fields, driver_vars, weighted_lines, scored_population,
                   eval_vars, loc_vars, engine_vars, session_vars, heap_vars>>

\* one pass of the loop over the pivots (mutation.py:249-269): the offspring
\* are built and checked; with one that parses crossover returns, with none
\* the next pivot is tried
TryPivot ==
    /\ cpc = "called"
    /\ ~too_short(parent_a, parent_b)
    /\ attempt < max_attempts
    /\ \E p \in 1..(min_len(parent_a, parent_b) - 1) :
          LET child_1 == one_point(parent_a, parent_b, p)
              child_2 == one_point(parent_b, parent_a, p)
              valid_1 == is_valid_syntax(child_1)
              valid_2 == is_valid_syntax(child_2)
          IN /\ pivot' = p
             /\ attempt' = attempt + 1
             /\ IF valid_1 /\ valid_2
                THEN /\ offspring_1' = list_of(child_1)
                     /\ offspring_2' = list_of(child_2)
                     /\ cpc' = "returned"
                ELSE IF valid_1
                THEN /\ offspring_1' = list_of(child_1)
                     /\ offspring_2' = list_of(child_1)
                     /\ cpc' = "returned"
                ELSE IF valid_2
                THEN /\ offspring_1' = list_of(child_2)
                     /\ offspring_2' = list_of(child_2)
                     /\ cpc' = "returned"
                ELSE UNCHANGED <<offspring_1, offspring_2, cpc>>
    /\ UNCHANGED <<parent_a, parent_b, single>>
    /\ UNCHANGED <<harness_fields, driver_vars, weighted_lines, scored_population,
                   eval_vars, loc_vars, engine_vars, session_vars, heap_vars>>

\* every pivot failed: (None, None) (mutation.py:271-272)
AllPivotsFailed ==
    /\ cpc = "called"
    /\ ~too_short(parent_a, parent_b)
    /\ attempt >= max_attempts
    /\ cpc' = "returned"
    /\ offspring_1' = None
    /\ offspring_2' = None
    /\ UNCHANGED <<parent_a, parent_b, attempt, pivot, single>>
    /\ UNCHANGED <<harness_fields, driver_vars, weighted_lines, scored_population,
                   eval_vars, loc_vars, engine_vars, session_vars, heap_vars>>

\* crossover_single: one of the two offspring, or None (mutation.py:286-292)
CrossoverSingle ==
    /\ cpc = "returned"
    /\ IF offspring_1 # None
       THEN single' \in {offspring_1, offspring_2}
       ELSE single' = None
    /\ cpc' = "done"
    /\ UNCHANGED <<parent_a, parent_b, attempt, pivot, offspring_1, offspring_2>>
    /\ UNCHANGED <<harness_fields, driver_vars, weighted_lines, scored_population,
                   eval_vars, loc_vars, engine_vars, session_vars, heap_vars>>

NextCross ==
    \/ RefuseParents
    \/ TryPivot
    \/ AllPivotsFailed
    \/ CrossoverSingle

SpecCross == InitCross /\ [][NextCross]_vars

----------------------------------------------------------------------------
(* One run of run_evolution, file by file: the temp directory, the variant   *)
(* files, the modules evaluate_file loads from them and the bytecode Python  *)
(* keeps for them.  A variant is known here by its text.                     *)

\* the texts of the variants: the patient, a variant of the same length (one
\* "<" became ">"), a longer variant that passes no test, and a repair
Texts == {"patient", "flipped", "longer", "repaired"}

\* st_size of the file save_variant_to_file writes for a text
size_of(text) == IF text \in {"patient", "flipped"} THEN 54 ELSE 55

\* the fitness evaluate_file gives the code of a text on the battery of the
\* run: one positive case of weight 1, one negative case of weight 2
fitness_when_run(text) ==
    CASE text = "patient" -> 1
      [] text = "flipped" -> 2
      [] text = "longer" -> 0
      [] text = "repaired" -> 3

\* what run_fault_localization returns for the patient in these runs
Localized == {<<<<2, 10>>>>, <<<<2, 1>>, <<3, 10>>>>}

\* get_temp_filepath(index): TEMP_DIR/variant_<index>.py
get_temp_filepath(index) == [dir |-> "temp_variants", base |-> <<"variant", index>>]

\* evaluate_file's module name: f"variant_{basename}_{id(self)}", the harness
\* of the run being the same object throughout
module_name(filepath) == <<"variant", filepath.base, "harness">>

\* mutant of weights_argument: only the lines of non-zero weight are passed on
weights_filtered(weights) == SelectSeq(weights, LAMBDA lw : lw[2] >= 10)

\* the weighted_lines argument of initialize_population and repopulate
\* (evolution.py:411, 487), handed to apply_random_mutation as it is
\* (evolution.py:284, 352)
weights_argument(weights) == weights

\* the slots of a directory that holds no file
no_files(n) == [i \in 1..n |-> None]

\* mutant of cleanup_temp_directory: the directory is left in place
cleanup_skipped(exists) == exists

\* cleanup_temp_directory: shutil.rmtree(TEMP_DIR) when it exists; whether the
\* directory exists afterwards
cleanup_temp_directory(exists) == FALSE

\* run_evolution has loaded the battery and the patient (evolution.py:384-394);
\* a directory left by an earlier run may be there, with its files
InitSession ==
    /\ positive_tests = TestCases(1)
    /\ negative_tests = TestCases(1)
    /\ positive_weight = 1
    /\ negative_weight = 2
    /\ max_fitness = 3
    /\ EvalIdle
    /\ LocIdle
    /\ MutIdle
    /\ HeapIdle
    /\ population_size \in 2..MaxFiles
    /\ num_generations \in 0..MaxGen
    /\ original_lines = "patient"
    /\ weighted_lines = <<>>
    /\ pc = "phase3"
    /\ population = <<>>
    /\ new_population = <<>>
    /\ scored_population = <<>>
    /\ survivors = <<>>
    /\ generation = 0
    /\ final_generation = 0
    /\ best_variant = None
    /\ best_fitness = 0
    /\ parent = None
    /\ attempts = 0
    /\ exception = "none"
    /\ returned = None
    /\ repaired_solution = None
    /\ best_attempt = None
    /\ report_summary = None
    /\ temp_dir \in BOOLEAN
    /\ clock = 0
    /\ files = IF temp_dir
               THEN [i \in 1..population_size |->
                       [text |-> "flipped", mtime |-> 0, size |-> size_of("flipped")]]
               ELSE no_files(population_size)
    /\ pycache = IF temp_dir
                 THEN [i \in 1..population_size |->
                         [mtime |-> 0, size |-> size_of("flipped"), code |-> "flipped"]]
                 ELSE no_files(population_size)
    /\ sys_modules = {}
    /\ loads = <<>>
    /\ variant_index = 0
    /\ written = [i \in 1..population_size |-> 0]
    /\ localizations = <<>>
    /\ weights_seen = {}

\* what the session actions leave alone
session_frame == <<positive_tests, negative_tests, positive_weight, negative_weight,
                   max_fitness, population_size, num_generations, original_lines,
                   new_population, parent, attempts,
                   repaired_solution, best_attempt, report_summary, eval_vars, loc_vars,
                   mut_vars, heap_vars>>

\* the clock of the file system moves on by a second
Tick ==
    /\ pc \in {"phase3", "phase4", "phase5", "write", "load", "check", "exhausted"}
    /\ clock < MaxClock
    /\ clock' = clock + 1
    /\ UNCHANGED <<session_frame, best_variant, best_fitness, weighted_lines, pc, population, scored_population,
                   survivors, generation, final_generation, exception, returned,
                   temp_dir, files, pycache, sys_modules, loads, variant_index, written,
                   localizations, weights_seen>>

\* Phase 3: harness.run_fault_localization(), which loads the file of the
\* patient (evolution.py:398, test_harness.py:226-235)
Localize ==
    /\ pc = "phase3"
    /\ weighted_lines' \in Localized
    /\ localizations' = Append(localizations, original_lines)
    /\ pc' = "phase4"
    /\ UNCHANGED <<session_frame, best_variant, best_fitness, population, scored_population, survivors, generation,
                   final_generation, exception, returned, temp_dir, clock, files,
                   pycache, sys_modules, loads, variant_index, written, weights_seen>>

\* Phase 4: setup_temp_directory() removes what is there and makes the
\* directory anew (evolution.py:115-119, 406)
SetupTempDirectory ==
    /\ pc = "phase4"
    /\ temp_dir' = TRUE
    /\ files' = no_files(population_size)
    /\ pycache' = no_files(population_size)
    /\ pc' = "phase5"
    /\ UNCHANGED <<session_frame, best_variant, best_fitness, weighted_lines, population, scored_population,
                   survivors, generation, final_generation, exception, returned, clock,
                   sys_modules, loads, variant_index, written, localizations,
                   weights_seen>>

\* the head of the generation loop for value g, evaluate_population starting
\* at index 0
session_loop_head(g) ==
    IF g <= num_generations
    THEN /\ pc' = "write"
         /\ generation' = g
    ELSE /\ pc' = "exhausted"
         /\ UNCHANGED generation

\* Phase 5: initialize_population: the patient, then mutants of the patient or
\* clones of it (evolution.py:411); the loop is entered (evolution.py:424)
InitializePopulation ==
    /\ pc = "phase5"
    /\ \E rest \in [1..(population_size - 1) -> Texts] :
          population' = <<original_lines>> \o rest
    /\ weights_seen' = weights_seen \cup {weights_argument(weighted_lines)}
    /\ session_loop_head(1)
    /\ variant_index' = 0
    /\ UNCHANGED <<session_frame, best_variant, best_fitness, weighted_lines, scored_population, survivors,
                   final_generation, exception, returned, temp_dir, clock, files,
                   pycache, sys_modules, loads, written, localizations>>

\* evaluate_population: variant i is saved to its file (evolution.py:306-307);
\* open() fails when the directory is not there
SaveVariant ==
    /\ pc = "write"
    /\ IF temp_dir
       THEN /\ files' = [files EXCEPT ![variant_index + 1] =
                           [text |-> population[variant_index + 1], mtime |-> clock,
                            size |-> size_of(population[variant_index + 1])]]
            /\ written' = [written EXCEPT ![variant_index + 1] = @ + 1]
            /\ pc' = "load"
            /\ UNCHANGED exception
       ELSE /\ exception' = "FileNotFoundError"
            /\ pc' = "raised"
            /\ UNCHANGED <<files, written>>
    /\ UNCHANGED <<session_frame, best_variant, best_fitness, weighted_lines, population, scored_population,
                   survivors, generation, final_generation, returned, temp_dir, clock,
                   pycache, sys_modules, loads, variant_index, localizations,
                   weights_seen>>

\* the bytecode file of a source file is used instead of the source when it
\* records the source's mtime (in whole seconds) and size
bytecode_is_current(source, bytecode) ==
    /\ bytecode # None
    /\ bytecode.mtime = source.mtime
    /\ bytecode.size = source.size

\* the code exec_module runs for a source file (test_harness.py:95)
code_of(source, bytecode) ==
    IF bytecode_is_current(source, bytecode) THEN bytecode.code ELSE source.text

\* evaluate_population: evaluate_file on the file of variant i
\* (evolution.py:311-312): the entry of sys.modules under the module name is
\* replaced (test_harness.py:86-94), the module is executed from the bytecode
\* or from the source, which leaves its bytecode behind, and the fitness of
\* the code that ran is appended
EvaluateFile ==
    /\ pc = "load"
    /\ LET filepath == get_temp_filepath(variant_index)
           name == module_name(filepath)
           source == files[variant_index + 1]
           code == code_of(source, pycache[variant_index + 1])
       IN /\ sys_modules' = {m \in sys_modules : m.name # name}
                               \cup {[name |-> name, code |-> code]}
          /\ pycache' = [pycache EXCEPT ![variant_index + 1] =
                            [mtime |-> source.mtime, size |-> source.size, code |-> code]]
          /\ loads' = Append(loads, [name |-> name, generation |-> generation,
                                     index |-> variant_index])
          /\ scored_population' =
                Append(scored_population,
                       [variant |-> population[variant_index + 1],
                        fitness |-> fitness_when_run(code)])
    /\ variant_index' = variant_index + 1
    /\ pc' = IF variant_index + 1 < Len(population) THEN "write" ELSE "check"
    /\ UNCHANGED <<session_frame, best_variant, best_fitness, weighted_lines, population, survivors, generation,
                   final_generation, exception, returned, temp_dir, clock, files,
                   written, localizations, weights_seen>>

\* a variant reaches max_fitness: the variants before it have gone through the
\* best-so-far update, the directory is removed and the variant returned
\* (evolution.py:433-477)
SessionSuccess ==
    /\ pc = "check"
    /\ first_perfect(scored_population) # 0
    /\ temp_dir' = cleanup_temp_directory(temp_dir)
    /\ files' = IF temp_dir' THEN files ELSE no_files(population_size)
    /\ pycache' = IF temp_dir' THEN pycache ELSE no_files(population_size)
    /\ LET seen == SubSeq(scored_population, 1, first_perfect(scored_population) - 1)
           best == track_best(seen, [variant |-> best_variant, fitness |-> best_fitness])
       IN /\ best_variant' = best.variant
          /\ best_fitness' = best.fitness
    /\ returned' = scored_population[first_perfect(scored_population)].variant
    /\ pc' = "success"
    /\ UNCHANGED <<session_frame, weighted_lines, population, scored_population,
                   survivors, generation, final_generation, exception, clock,
                   sys_modules, loads, variant_index, written, localizations,
                   weights_seen>>

\* no variant reaches max_fitness: the best-so-far update over the scored
\* variants (evolution.py:475-477), then select_survivors and repopulate, whose
\* children are mutants or clones of survivors (evolution.py:479-487), and the
\* next round of the loop
SelectAndRepopulate ==
    /\ pc = "check"
    /\ first_perfect(scored_population) = 0
    /\ LET best == track_best(scored_population,
                              [variant |-> best_variant, fitness |-> best_fitness])
       IN /\ best_variant' = best.variant
          /\ best_fitness' = best.fitness
    /\ final_generation' = generation
    /\ survivors' = select_survivors(scored_population).survivors
    /\ \E children \in [1..(population_size - Len(survivors')) -> Texts] :
          population' = survivors' \o children
    /\ weights_seen' = weights_seen \cup {weights_argument(weighted_lines)}
    /\ session_loop_head(generation + 1)
    /\ scored_population' = <<>>
    /\ variant_index' = 0
    /\ written' = [i \in 1..population_size |-> 0]
    /\ UNCHANGED <<session_frame, weighted_lines, exception, returned, temp_dir, clock,
                   files, pycache, sys_modules, loads, localizations>>

\* the budget is exhausted: the directory is removed and None returned
\* (evolution.py:489-517)
SessionFailure ==
    /\ pc = "exhausted"
    /\ temp_dir' = cleanup_temp_directory(temp_dir)
    /\ files' = IF temp_dir' THEN files ELSE no_files(population_size)
    /\ pycache' = IF temp_dir' THEN pycache ELSE no_files(population_size)
    /\ returned' = None
    /\ pc' = "failed"
    /\ UNCHANGED <<session_frame, best_variant, best_fitness, weighted_lines, population, scored_population,
                   survivors, generation, final_generation, exception, clock,
                   sys_modules, loads, variant_index, written, localizations,
                   weights_seen>>

NextSession ==
    \/ Tick
    \/ Localize
    \/ SetupTempDirectory
    \/ InitializePopulation
    \/ SaveVariant
    \/ EvaluateFile
    \/ SessionSuccess
    \/ SelectAndRepopulate
    \/ SessionFailure

SpecSession == InitSession /\ [][NextSession]_vars

----------------------------------------------------------------------------
(* Lists as objects: which list each operator, crossover, seeding and        *)
(* repopulation reads, and which list it writes.  heap[o] is the content of  *)
(* the list with identity o; the driver's variables hold identities here.    *)

\* the patient of these runs
HeapPatient ==
    <<<<"i","f"," ","a","<","b",":","\n">>,
      <<" ","a","=","b","\n">>>>

\* mutant of list_copy: the name is bound to the list itself
list_alias(h, o) == [heap |-> h, id |-> o]

\* lines[:]: a new list holding the items of list o
list_copy(h, o) == [heap |-> Append(h, h[o]), id |-> Len(h) + 1]

\* the index arguments an operator can be given for a program
Indices(program) == 0..(Len(program) - 1)

\* the results of the five operators on a program for every choice of
\* operator, target and source
all_outputs(program) ==
    UNION {operator_outputs(program, o, t, s) :
             o \in Operators, t \in Indices(program), s \in Indices(program)}

\* a call of an operator of mutation.py on list arg: new_lines = lines[:]
\* (mutation.py:37, 53, 72, 129, 184), the writes go to new_lines, and
\* new_lines or None is returned (identity 0 standing for None)
operator_call(h, arg, output) ==
    LET made == list_copy(h, arg)
    IN IF output = None
       THEN [heap |-> made.heap, id |-> 0]
       ELSE [heap |-> [made.heap EXCEPT ![made.id] = output.lines], id |-> made.id]

\* the patient has been read; initialize_population starts
\* (evolution.py:275) for a population of the patient and one more variant,
\* the smallest that select_survivors and repopulate breed from; identity 0
\* stands for None
InitHeap ==
    /\ positive_tests = <<>>
    /\ negative_tests = <<>>
    /\ positive_weight = 0
    /\ negative_weight = 0
    /\ max_fitness = 0
    /\ EvalIdle
    /\ LocIdle
    /\ MutIdle
    /\ SessionIdle
    /\ population_size = 1 + 1
    /\ num_generations = 1
    /\ original_lines = 1
    /\ weighted_lines = <<>>
    /\ pc = "seed"
    /\ population = <<>>
    /\ new_population = <<>>
    /\ scored_population = <<>>
    /\ survivors = <<>>
    /\ generation = 0
    /\ final_generation = 0
    /\ best_variant = None
    /\ best_fitness = 0
    /\ parent = 0
    /\ attempts = 0
    /\ exception = "none"
    /\ returned = None
    /\ repaired_solution = None
    /\ best_attempt = None
    /\ report_summary = None
    /\ temp_dir = FALSE
    /\ heap = <<HeapPatient>>
    /\ passed = <<>>
    /\ produced = <<>>

\* what the heap actions leave alone
heap_frame == <<positive_tests, negative_tests, positive_weight, negative_weight,
                max_fitness, population_size, num_generations, original_lines,
                weighted_lines, scored_population, generation, final_generation,
                best_variant, best_fitness, exception, returned, repaired_solution,
                best_attempt, report_summary, temp_dir, eval_vars, loc_vars, mut_vars,
                session_vars>>

\* initialize_population: population.append(original_lines[:])
\* (evolution.py:276)
SeedPatient ==
    /\ pc = "seed"
    /\ population = <<>>
    /\ LET made == list_copy(heap, original_lines)
       IN /\ heap' = made.heap
          /\ population' = <<made.id>>
          /\ passed' = <<>>
          /\ produced' = Append(produced, made.id)
    /\ attempts' = 0
    /\ UNCHANGED <<heap_frame, pc, new_population, survivors, parent>>

\* initialize_population: one attempt of the retry loop,
\* apply_random_mutation(original_lines[:], weighted_lines), whose result is
\* appended if it is not None (evolution.py:282-290)
SeedCall ==
    /\ pc = "seed"
    /\ population # <<>>
    /\ Len(population) < population_size
    /\ attempts < MAX_ATTEMPTS
    /\ LET argument == list_copy(heap, original_lines)
       IN \E output \in all_outputs(argument.heap[argument.id]) :
             LET returned_list == operator_call(argument.heap, argument.id, output)
             IN /\ heap' = returned_list.heap
                /\ passed' = <<argument.id>>
                /\ produced' = Append(produced, returned_list.id)
                /\ IF returned_list.id = 0
                   THEN /\ attempts' = attempts + 1
                        /\ UNCHANGED population
                   ELSE /\ attempts' = 0
                        /\ population' = Append(population, returned_list.id)
    /\ UNCHANGED <<heap_frame, pc, new_population, survivors, parent>>

\* initialize_population: every attempt returned None, a clone of the patient
\* is appended (evolution.py:287-290)
SeedClone ==
    /\ pc = "seed"
    /\ Len(population) < population_size
    /\ attempts = MAX_ATTEMPTS
    /\ LET made == list_copy(heap, original_lines)
       IN /\ heap' = made.heap
          /\ population' = Append(population, made.id)
          /\ passed' = <<>>
          /\ produced' = Append(produced, made.id)
    /\ attempts' = 0
    /\ UNCHANGED <<heap_frame, pc, new_population, survivors, parent>>

\* select_survivors keeps num_survivors of the variants of the population, the
\* lists themselves (evolution.py:332-337); repopulate starts from
\* survivors[:], a new list of the same variants (evolution.py:344)
KeepSurvivors ==
    /\ pc = "seed"
    /\ Len(population) = population_size
    /\ \E kept \in [1..num_survivors(population_size) -> 1..population_size] :
          /\ \A i, j \in DOMAIN kept : i # j => kept[i] # kept[j]
          /\ survivors' = [i \in DOMAIN kept |-> population[kept[i]]]
    /\ new_population' = survivors'
    /\ pc' = "breed"
    /\ UNCHANGED <<heap_frame, population, parent, attempts, heap_vars>>

\* repopulate: parent = random.choice(survivors)[:] (evolution.py:347)
CopyParent ==
    /\ pc = "breed"
    /\ Len(new_population) < population_size
    /\ parent = 0
    /\ \E chosen \in DOMAIN survivors :
          LET made == list_copy(heap, survivors[chosen])
          IN /\ heap' = made.heap
             /\ parent' = made.id
             /\ produced' = Append(produced, made.id)
    /\ passed' = <<>>
    /\ attempts' = 0
    /\ UNCHANGED <<heap_frame, pc, population, new_population, survivors>>

\* repopulate: one attempt of the retry loop, apply_random_mutation(parent,
\* weighted_lines) (evolution.py:349-353, 358)
BreedCall ==
    /\ pc = "breed"
    /\ parent # 0
    /\ attempts < MAX_ATTEMPTS
    /\ \E output \in all_outputs(heap[parent]) :
          LET returned_list == operator_call(heap, parent, output)
          IN /\ heap' = returned_list.heap
             /\ passed' = <<parent>>
             /\ produced' = Append(produced, returned_list.id)
             /\ IF returned_list.id = 0
                THEN /\ attempts' = attempts + 1
                     /\ UNCHANGED <<new_population, parent>>
                ELSE /\ attempts' = 0
                     /\ new_population' = Append(new_population, returned_list.id)
                     /\ parent' = 0
    /\ UNCHANGED <<heap_frame, pc, population, survivors>>

\* repopulate: every attempt returned None, child = parent[:]
\* (evolution.py:355-358)
BreedClone ==
    /\ pc = "breed"
    /\ parent # 0
    /\ attempts = MAX_ATTEMPTS
    /\ LET made == list_copy(heap, parent)
       IN /\ heap' = made.heap
          /\ new_population' = Append(new_population, made.id)
          /\ passed' = <<>>
          /\ produced' = Append(produced, made.id)
    /\ parent' = 0
    /\ attempts' = 0
    /\ UNCHANGED <<heap_frame, pc, population, survivors>>

\* repopulate returns new_population (evolution.py:360)
BreedReturn ==
    /\ pc = "breed"
    /\ Len(new_population) = population_size
    /\ population' = new_population
    /\ pc' = "bred"
    /\ UNCHANGED <<heap_frame, new_population, survivors, parent, attempts, heap_vars>>

\* crossover(parent_a, parent_b) on two variants of the population, for a
\* pivot and either outcome of the syntax checks: the offspring are the lists
\* the slices and "+" build, and a copy of the valid one when only one is
\* valid (mutation.py:235-274)
Crossover ==
    /\ pc = "bred"
    /\ \E a \in DOMAIN population, b \in DOMAIN population :
          LET lines_a == heap[population[a]]
              lines_b == heap[population[b]]
          IN /\ passed' = <<population[a], population[b]>>
             /\ IF too_short(lines_a, lines_b)
                THEN /\ UNCHANGED heap
                     /\ produced' = produced \o <<0, 0>>
                ELSE \E cut \in 1..(min_len(lines_a, lines_b) - 1),
                        ok_1 \in BOOLEAN, ok_2 \in BOOLEAN :
                        LET child_1 == one_point(lines_a, lines_b, cut)
                            child_2 == one_point(lines_b, lines_a, cut)
                            twin == CASE ok_1 /\ ok_2 -> child_2
                                        [] ok_1 /\ ~ok_2 -> child_1
                                        [] OTHER -> child_2
                        IN IF ok_1 \/ ok_2
                           THEN /\ heap' = heap \o <<child_1, child_2>>
                                             \o (IF ok_1 /\ ok_2 THEN <<>>
                                                 ELSE <<twin>>)
                                /\ produced' = produced \o
                                     (CASE ok_1 /\ ok_2 ->
                                               <<Len(heap) + 1, Len(heap) + 2>>
                                        [] ok_1 /\ ~ok_2 ->
                                               <<Len(heap) + 1, Len(heap) + 3>>
                                        [] OTHER -> <<Len(heap) + 2, Len(heap) + 3>>)
                           ELSE /\ heap' = heap \o <<child_1, child_2>>
                                /\ produced' = produced \o <<0, 0>>
    /\ pc' = "crossed"
    /\ UNCHANGED <<heap_frame, population, new_population, survivors, parent, attempts>>

NextHeap ==
    \/ SeedPatient
    \/ SeedCall
    \/ SeedClone
    \/ KeepSurvivors
    \/ CopyParent
    \/ BreedCall
    \/ BreedClone
    \/ BreedReturn
    \/ Crossover

SpecHeap == InitHeap /\ [][NextHeap]_vars

----------------------------------------------------------------------------
(* The five operators called on their own, for every target and source line  *)
(* of a program.                                                             *)

\* programs as readlines() returns them: with a line that ends in a blank,
\* a last line without a newline, a blank line, a shift, two-character
\* comparisons, two comparisons on one line, connectives with and without
\* blanks around them and a name that ends in "and"
Sources ==
    {<<<<"d","e","f"," ","f","(","a",")",":","\n">>,
       <<" ","i","f"," ","a","<","b",":","\n">>,
       <<" "," ","r","e","t","u","r","n"," ","a"," ","\n">>,
       <<" ","r","e","t","u","r","n"," ","b">>>>,
     <<<<"d","e","f"," ","f","(","a",")",":","\n">>,
       <<" ","c","=","a","<","<","b","\n">>,
       <<"\n">>,
       <<" ","i","f"," ","a","<","=","b"," ","o","r"," ","c",":","\n">>,
       <<" "," ","r","e","t","u","r","n"," ","a",">","=","b","=","=","c","\n">>,
       <<" ","r","e","t","u","r","n"," ","a","!","=","b","\n">>>>,
     <<<<"d","e","f"," ","f","(","a",")",":","\n">>,
       <<" ","i","f"," ","(","a",")","o","r"," ","b",":","\n">>,
       <<" "," ","r","e","t","u","r","n"," ","b","a","n","d"," ","a","n","d"," ","c","\n">>,
       <<" ","r","e","t","u","r","n"," ","a"," ","o","r"," ","b"," ","o","r"," ","c","\n">>>>}

\* a program is given to an operator
InitOps ==
    /\ positive_tests = <<>>
    /\ negative_tests = <<>>
    /\ positive_weight = 1
    /\ negative_weight = 1
    /\ max_fitness = 0
    /\ DriverIdle
    /\ EvalIdle
    /\ LocIdle
    /\ CrossIdle
    /\ SessionIdle
    /\ HeapIdle
    /\ weighted_lines = <<>>
    /\ lines \in Sources
    /\ mpc = "called"
    /\ drawn = None
    /\ target_idx = None
    /\ source_idx = None
    /\ op = None
    /\ mutated_lines = None
    /\ result = None
    /\ calls = 0

\* what the operator actions leave alone
ops_frame == <<harness_fields, driver_vars, weighted_lines, scored_population, eval_vars,
               loc_vars, cross_vars, session_vars, heap_vars, lines, drawn, calls>>

\* mutate_delete(lines, target_idx)
MutateDelete ==
    /\ mpc = "called"
    /\ \E t \in Indices(lines) :
          /\ target_idx' = t
          /\ mutated_lines' = list_of(mutate_delete(lines, t))
    /\ op' = "delete"
    /\ mpc' = "done"
    /\ UNCHANGED <<ops_frame, source_idx, result>>

\* mutate_insert(lines, target_idx, source_idx)
MutateInsert ==
    /\ mpc = "called"
    /\ \E t \in Indices(lines), s \in Indices(lines) :
          /\ target_idx' = t
          /\ source_idx' = s
          /\ mutated_lines' = list_of(mutate_insert(lines, t, s))
    /\ op' = "insert"
    /\ mpc' = "done"
    /\ UNCHANGED <<ops_frame, result>>

\* mutate_swap(lines, idx_a, idx_b)
MutateSwap ==
    /\ mpc = "called"
    /\ \E a \in Indices(lines), b \in Indices(lines) :
          /\ target_idx' = a
          /\ source_idx' = b
          /\ mutated_lines' = list_of(mutate_swap(lines, a, b))
    /\ op' = "swap"
    /\ mpc' = "done"
    /\ UNCHANGED <<ops_frame, result>>

\* mutate_swap on the result of mutate_swap, with the same two indices
SwapAgain ==
    /\ mpc = "done"
    /\ op = "swap"
    /\ result' = list_of(mutate_swap(mutated_lines.lines, target_idx, source_idx))
    /\ mpc' = "twice"
    /\ UNCHANGED <<ops_frame, target_idx, source_idx, op, mutated_lines>>

\* mutate_expression(lines, target_idx), for every match and replacement
MutateExpression ==
    /\ mpc = "called"
    /\ \E t \in Indices(lines) :
          /\ target_idx' = t
          /\ mutated_lines' \in mutate_expression(lines, t)
    /\ op' = "expression"
    /\ mpc' = "done"
    /\ UNCHANGED <<ops_frame, source_idx, result>>

\* mutate_boolean(lines, target_idx), for every match
MutateBoolean ==
    /\ mpc = "called"
    /\ \E t \in Indices(lines) :
          /\ target_idx' = t
          /\ mutated_lines' \in mutate_boolean(lines, t)
    /\ op' = "boolean"
    /\ mpc' = "done"
    /\ UNCHANGED <<ops_frame, source_idx, result>>

NextOps ==
    \/ MutateDelete
    \/ MutateInsert
    \/ MutateSwap
    \/ SwapAgain
    \/ MutateExpression
    \/ MutateBoolean

SpecOps == InitOps /\ [][NextOps]_vars

----------------------------------------------------------------------------
(* repopulate on its own, from the survivors it is given to the population   *)
(* it returns, the variants being their lines.                               *)

\* the variants select_survivors can hand over: the patient of the heap runs
\* and two variants of it
Survivors ==
    {HeapPatient,
     <<<<"i","f"," ","a",">","b",":","\n">>, <<" ","a","=","b","\n">>>>,
     <<<<"i","f"," ","a","<","b",":","\n">>, <<" ","p","a","s","s","\n">>>>}

\* what apply_random_mutation can return for a parent: the result of an
\* operator, or None when the operator found nothing to change or its result
\* did not parse (mutation.py:350-386)
children_of(program) == {syntax_check(output) : output \in all_outputs(program)}

\* repopulate is called with num_survivors variants for a population of
\* population_size, up to the smallest with two survivors and two children:
\* new_population = survivors[:] (evolution.py:344)
InitRepopulate ==
    /\ positive_tests = <<>>
    /\ negative_tests = <<>>
    /\ positive_weight = 0
    /\ negative_weight = 0
    /\ max_fitness = 0
    /\ EvalIdle
    /\ LocIdle
    /\ MutIdle
    /\ SessionIdle
    /\ HeapIdle
    /\ population_size \in {2, 3, 2 + 2}
    /\ num_generations = 1
    /\ original_lines = HeapPatient
    /\ weighted_lines = <<>>
    /\ pc = "repopulate"
    /\ population = <<>>
    /\ survivors \in [1..num_survivors(population_size) -> Survivors]
    /\ new_population = survivors
    /\ scored_population = <<>>
    /\ generation = 1
    /\ final_generation = 1
    /\ best_variant = None
    /\ best_fitness = 0
    /\ parent = None
    /\ attempts = 0
    /\ exception = "none"
    /\ returned = None
    /\ repaired_solution = None
    /\ best_attempt = None
    /\ report_summary = None
    /\ temp_dir = TRUE

\* what the actions of repopulate leave alone
repopulate_frame == <<harness_fields, population_size, num_generations, original_lines,
                      weighted_lines, scored_population, survivors, generation,
                      final_generation, best_variant, best_fitness, exception, returned,
                      repaired_solution, best_attempt, report_summary, temp_dir,
                      eval_vars, loc_vars, mut_vars, session_vars, heap_vars>>

\* parent = random.choice(survivors)[:]; child = None; attempts = 0
\* (evolution.py:346-350)
PickParent ==
    /\ pc = "repopulate"
    /\ Len(new_population) < population_size
    /\ parent = None
    /\ \E chosen \in DOMAIN survivors : parent' = survivors[chosen]
    /\ attempts' = 0
    /\ UNCHANGED <<repopulate_frame, pc, population, new_population>>

\* one round of "while child is None and attempts < 10": child =
\* apply_random_mutation(parent, weighted_lines); a child that is not None
\* ends the loop and is appended (evolution.py:351-358)
MutateParent ==
    /\ pc = "repopulate"
    /\ parent # None
    /\ retry(None, attempts)
    /\ \E child \in children_of(parent) :
          IF child = None
          THEN /\ attempts' = attempts + 1
               /\ UNCHANGED <<new_population, parent>>
          ELSE /\ new_population' = Append(new_population, child.lines)
               /\ attempts' = attempts + 1
               /\ parent' = None
    /\ UNCHANGED <<repopulate_frame, pc, population>>

\* the loop ended with child None: child = parent[:] is appended
\* (evolution.py:355-358)
CloneParent ==
    /\ pc = "repopulate"
    /\ parent # None
    /\ ~retry(None, attempts)
    /\ new_population' = Append(new_population, parent)
    /\ parent' = None
    /\ UNCHANGED <<repopulate_frame, pc, population, attempts>>

\* return new_population (evolution.py:360), which run_evolution assigns to
\* population (evolution.py:487)
ReturnPopulation ==
    /\ pc = "repopulate"
    /\ parent = None
    /\ Len(new_population) >= population_size
    /\ population' = new_population
    /\ pc' = "repopulated"
    /\ UNCHANGED <<repopulate_frame, new_population, parent, attempts>>

NextRepopulate ==
    \/ PickParent
    \/ MutateParent
    \/ CloneParent
    \/ ReturnPopulation

SpecRepopulate == InitRepopulate /\ [][NextRepopulate]_vars

----------------------------------------------------------------------------
(* Claims about the driver *)

\* the variant passes every positive and every negative case
passes_all(variant) ==
    /\ variant.pp = Len(positive_tests)
    /\ variant.np = Len(negative_tests)

\* C2: run_evolution ends in success for a variant if and only if the variant
\* passes every positive and every negative test: the variant returned as the
\* repair (and written to repaired_solution) passes them all, and a generation
\* whose success check found nothing scored no variant that passes them all.
C2_SuccessIffAllTestsPass ==
    /\ pc = "success" => (passes_all(returned) /\ repaired_solution = returned)
    /\ pc \in {"select", "repopulate"} =>
          \A i \in 1..Len(scored_population) : ~passes_all(scored_population[i].variant)

\* C3: once seeding has begun no exception leaves initialize_population,
\* evaluate_population, select_survivors or repopulate, for every N >= 1, every
\* budget G and every battery.
C3_NoFaultAbortsTheSearch == exception = "none"

\* C6: the population has exactly N variants at the start of every evaluation
\* round, and select_survivors followed by repopulate returns (it does not
\* raise) a population of exactly N.
C6_PopulationSizeIsN ==
    /\ pc = "evaluate" => Len(population) = population_size
    /\ pc = "repopulate" => exception = "none"

\* C9: whenever the budget is exhausted without a repair, best_attempt holds a
\* variant that scores at least as high as every variant of the last scored
\* generation, and the report carries the failure flag, also when no variant
\* ever scored above 0.
C9_FailureEmitsBestAttempt ==
    (pc = "failed" /\ scored_population # <<>>) =>
        /\ report_summary # None
        /\ report_summary.success = FALSE
        /\ best_attempt # None
        /\ \A i \in 1..Len(scored_population) :
              evaluate_file(best_attempt) >= scored_population[i].fitness

\* C10: with an empty battery and F_max = 0, a run with a budget of at least
\* one generation does not raise and does not end in failure; it ends in
\* success in generation 1 with the unmutated patient as the repair.
C10_EmptyBatterySucceedsWithPatient ==
    (positive_tests = <<>> /\ negative_tests = <<>> /\ max_fitness = 0
        /\ num_generations >= 1) =>
        /\ exception = "none"
        /\ pc \notin {"select", "repopulate", "exhausted", "failed"}
        /\ pc = "success" => (generation = 1 /\ returned = original_lines)

\* C15: initialize_population's list has the unmutated patient at index 0, and
\* every other slot was filled either by a non-failure result of
\* apply_random_mutation reached with fewer than ten failures before it (so
\* within ten attempts), or by a clone of the patient after ten consecutive
\* failures; the list that is returned has max(1, population_size) slots.
C15_SeededPopulation ==
    /\ [](/\ population # <<>> => population[1] = original_lines
          /\ population[1].orig
          /\ \A i \in 2..Len(population) :
                population[i] \in (mutation_results \ {None}) \cup {original_lines}
          /\ pc \in {"evaluate", "exhausted"} => Len(population) = population_size)
    /\ [][pc = "seed" /\ population' # population =>
            /\ Len(population') = Len(population) + 1
            /\ SubSeq(population', 1, Len(population)) = population
            /\ LET slot == population'[Len(population')]
               IN \/ slot \in mutation_results \ {None} /\ attempts < MAX_ATTEMPTS
                  \/ slot = original_lines /\ attempts = MAX_ATTEMPTS]_vars

\* initialize_population has returned three slots: the patient, a clone of it
\* (ten failures) and a mutant
C15_Witness ==
    /\ pc = "evaluate"
    /\ Len(population) = 3
    /\ population[2] = original_lines
    /\ ~population[3].orig

\* C13: whenever run_evolution announces success, repaired_solution, holding the
\* winning variant's lines unchanged, and then report_summary, flagged as a
\* success, are written before the run terminates: each step of the success
\* path can be taken, and the run has returned the winner only with both written.
C13_SuccessWritesSolutionAndReport ==
    /\ pc = "announced" => ENABLED SaveSolution
    /\ pc = "saved" => (repaired_solution = winner.variant /\ ENABLED WriteReport)
    /\ pc \in {"reported", "success"} =>
          /\ repaired_solution = winner.variant
          /\ report_summary # None
          /\ report_summary.success = TRUE
          /\ report_summary.repaired_lines = winner.variant
    /\ pc = "reported" => ENABLED ReturnVariant
    /\ pc = "success" => returned = winner.variant
    /\ returned # None => pc = "success"

\* a run has ended in success with a variant that is not the first of its
\* population, after a variant that scored above 0 without being perfect
C13_Witness ==
    /\ pc = "success"
    /\ first_perfect(scored_population) >= 2
    /\ best_fitness > 0
    /\ repaired_solution = returned
    /\ report_summary.final_generation = generation

\* C14: if every harness invocation returns, run_evolution terminates: it is
\* never stuck short of the success or the failure state, it runs at most G
\* evaluation rounds, and it fails only after exactly G rounds, normally:
\* returning None with a report that carries the failure flag.
C14_RunTerminatesWithinBudget ==
    (pc # "blocked" /\ exception # "SystemExit") =>
        /\ generation <= num_generations
        /\ pc \in {"success", "failed"} \/ ENABLED Next
        /\ pc \in {"exhausted", "failed"} => final_generation = num_generations
        /\ pc = "failed" =>
              /\ exception = "none"
              /\ returned = None
              /\ report_summary # None
              /\ report_summary.success = FALSE

----------------------------------------------------------------------------
(* Claims about select_survivors *)

\* the fitness the variant with list identity v was scored with
fitness_of(v) == scored_population[v].fitness

\* v comes before w in the order of the sort: fitter, or as fit and earlier
ranks_before(v, w) ==
    \/ fitness_of(v) > fitness_of(w)
    \/ fitness_of(v) = fitness_of(w) /\ v < w

\* the variants select_survivors dropped
discarded == (1..Len(scored_population)) \ {survivors[i] : i \in 1..Len(survivors)}

\* C7: select_survivors returns exactly floor(N/2) variants, in descending
\* fitness order with equally fit variants in their population order, and every
\* survivor ranks before every discarded variant (fitter, or as fit and earlier
\* in the population).
C7_SelectionKeepsTopHalfStably ==
    pc = "repopulate" =>
        /\ Len(survivors) = Len(scored_population) \div 2
        /\ \A i \in 1..Len(survivors) : survivors[i] \in 1..Len(scored_population)
        /\ \A i, j \in 1..Len(survivors) : i < j => ranks_before(survivors[i], survivors[j])
        /\ \A i \in 1..Len(survivors) : \A d \in discarded : ranks_before(survivors[i], d)

\* selection has run on a population with a tie across the cut and a tie
\* among the survivors
C7_Witness ==
    /\ pc = "repopulate"
    /\ Len(survivors) >= 2
    /\ fitness_of(survivors[1]) = fitness_of(survivors[2])
    /\ \E d \in discarded : fitness_of(d) = fitness_of(survivors[Len(survivors)])
    /\ \E d \in discarded : fitness_of(d) < fitness_of(survivors[Len(survivors)])

----------------------------------------------------------------------------
(* Claims about the harness *)

\* C1: when an invocation does not finish within the deadline, the timeout is
\* reported to the caller without waiting for the worker thread: with the
\* (False, "Timeout") pair in hand, _run_with_timeout can return to evaluate_file
\* whatever the worker does, and evaluate_file is never stuck before it ends.
C1_TimeoutReleasesCaller ==
    /\ (call = "exiting" /\ outcome.result = "Timeout") => ENABLED ExecutorExit
    /\ hpc \in {"returned", "raised"} \/ ENABLED NextHarness

\* C4: the fitness evaluate_file returns lies in 0..F_max, and F_max, the
\* harness.max_fitness the driver compares against, is
\* |positive| * w_pos + |negative| * w_neg.
C4_FitnessWithinMaxFitness ==
    hpc = "returned" =>
        /\ 0 <= eval_result
        /\ eval_result <= max_fitness
        /\ max_fitness = weight_sum

\* the variant file loads and defines the entry point
entry_point_found == candidate.loads = "ok" /\ candidate.defines

\* every case of the battery once, the positive cases first, in declaration order
all_invocations ==
    [i \in 1..Len(positive_tests) |-> <<"positive", i>>]
      \o [i \in 1..Len(negative_tests) |-> <<"negative", i>>]

\* the number of cases the entry point passes: the expected value in time
passing(behaviours) ==
    Cardinality({i \in 1..Len(behaviours) : behaviours[i] = "expected"})

\* the weights of the cases the candidate passes
earned_fitness ==
    positive_weight * passing(candidate.pos) + negative_weight * passing(candidate.neg)

\* C11: evaluate_file never short-circuits: when it has ended on a variant that
\* loads and defines the entry point, every positive and every negative case
\* was invoked exactly once, positives first, in declaration order, whatever
\* earlier cases did, and the fitness returned is w_pos times the passing
\* positive cases plus w_neg times the passing negative cases.
C11_EveryTestRunsOnceInOrder ==
    (hpc \in {"returned", "raised"} /\ entry_point_found) =>
        /\ invoked = all_invocations
        /\ hpc = "returned"
        /\ eval_result = earned_fitness

\* C12: no failure of a candidate leaves evaluate_file: a load error or a
\* missing entry point scores 0, and an exception, a timeout or a wrong value
\* on one case costs that case's credit only.
C12_NoCandidateFailureEscapes ==
    /\ escaped = "none"
    /\ hpc # "raised"
    /\ (hpc = "returned" /\ ~entry_point_found) => eval_result = 0
    /\ (hpc = "returned" /\ entry_point_found) => eval_result = earned_fitness

----------------------------------------------------------------------------
(* Claims about the fault localizer *)

\* the lines at least one traced case of the class covered
covered(traces) == UNION traces

\* C8: run_fault_localization returns one (line, weight) pair for exactly the
\* lines in P \cup F, in ascending line order, with weight 1.0 (10 tenths) for a
\* line in F only, 0.1 (1 tenth) for a line in both and 0.0 for a line in P
\* only, P and F being the unions of the lines the positive and the negative
\* cases covered; the result depends on nothing else.
C8_LocalizationWeights ==
    lpc = "returned" =>
        LET P == covered(pos_traces)
            F == covered(neg_traces)
            n == Len(weighted_lines)
        IN /\ {weighted_lines[i][1] : i \in 1..n} = P \cup F
           /\ n = Cardinality(P \cup F)
           /\ \A i \in 1..n, j \in 1..n : i < j => weighted_lines[i][1] < weighted_lines[j][1]
           /\ \A i \in 1..n :
                LET line == weighted_lines[i][1]
                    weight == weighted_lines[i][2]
                IN /\ (line \in F \ P) => weight = 10
                   /\ (line \in F \cap P) => weight = 1
                   /\ (line \in P \ F) => weight = 0

\* localization has returned a list that holds all three weights
C8_Witness ==
    /\ lpc = "returned"
    /\ \E i, j, k \in 1..Len(weighted_lines) :
          /\ weighted_lines[i][2] = 10
          /\ weighted_lines[j][2] = 1
          /\ weighted_lines[k][2] = 0

----------------------------------------------------------------------------
(* Claims about the mutation engine *)

\* C5: whatever operator was drawn, a result of apply_random_mutation that is
\* not None is the operator's output and is accepted by is_valid_syntax, and an
\* operator output that does not parse is discarded: the result is None
C5_ResultPassesSyntaxCheck ==
    mpc = "returned" =>
        /\ result # None =>
              /\ op \in Operators
              /\ result = mutated_lines
              /\ is_valid_syntax(result.lines)
        /\ (mutated_lines # None /\ ~is_valid_syntax(mutated_lines.lines)) =>
              result = None

\* a variant that was returned earlier is mutated again, and this time the
\* operator's output does not parse
C5_Witness ==
    /\ mpc = "returned"
    /\ calls >= 1
    /\ is_valid_syntax(lines)
    /\ mutated_lines # None
    /\ ~is_valid_syntax(mutated_lines.lines)
    /\ result = None

\* the localized lines a call may pick from, as 0-based <<index, weight>> pairs
\* in list order: those of non-zero weight, or all of them with weight 1.0
\* (10 tenths) when every weight is zero
wheel ==
    LET positive == {i \in 1..Len(weighted_lines) : weighted_lines[i][2] # 0}
        kept == IF positive = {} THEN 1..Len(weighted_lines) ELSE positive
        nth(k) == CHOOSE i \in kept : Cardinality({j \in kept : j < i}) = k - 1
    IN [k \in 1..Cardinality(kept) |->
          <<weighted_lines[nth(k)][1] - 1,
            IF positive = {} THEN 10 ELSE weighted_lines[nth(k)][2]>>]

RECURSIVE running_sum(_)
\* the sum of the weights of the first k pairs of the wheel
running_sum(k) == IF k = 0 THEN 0 ELSE running_sum(k - 1) + wheel[k][2]

\* C16: in apply_random_mutation the target and the source index are 0-based
\* positions of localized lines of non-zero weight, all localized lines being
\* candidates (with weight 1.0 each) only when every weight is zero; and for a
\* draw r in [0, sum of weights) the target is the first candidate, in list
\* order, whose running weight sum exceeds r.
C16_TargetIsFirstPastDraw ==
    mpc = "returned" =>
        /\ \E k \in 1..Len(wheel) : target_idx = wheel[k][1]
        /\ \E k \in 1..Len(wheel) : source_idx = wheel[k][1]
        /\ (drawn >= 0 /\ drawn < running_sum(Len(wheel))) =>
              \E k \in 1..Len(wheel) :
                 /\ target_idx = wheel[k][1]
                 /\ running_sum(k) > drawn
                 /\ \A j \in 1..(k - 1) : running_sum(j) <= drawn

\* a line of weight zero is localized but is no candidate, and the draw passes
\* the first candidate: the target is a later one
C16_Witness ==
    /\ mpc = "returned"
    /\ \E i \in 1..Len(weighted_lines) : weighted_lines[i][2] = 0
    /\ \E i \in 1..Len(weighted_lines) : weighted_lines[i][2] # 0
    /\ drawn >= wheel[1][2]
    /\ drawn < running_sum(Len(wheel))
    /\ target_idx # wheel[1][1]

\* C19: the output of mutate_delete, mutate_swap, mutate_expression and
\* mutate_boolean, when it is not a failure, has as many lines as the program
\* the operator was given, and the output of mutate_insert has one more.
C19_LineCounts ==
    (mpc = "returned" /\ mutated_lines # None) =>
        /\ op \in {"delete", "swap", "expression", "boolean"} =>
              Len(mutated_lines.lines) = Len(lines)
        /\ op = "insert" => Len(mutated_lines.lines) = Len(lines) + 1

\* a variant that an insertion made one line longer than its patient is given
\* to mutate_insert again
C19_Witness ==
    /\ mpc = "returned"
    /\ calls >= 1
    /\ Len(lines) = 5
    /\ op = "insert"
    /\ mutated_lines # None
    /\ Len(mutated_lines.lines) = 6

----------------------------------------------------------------------------
(* Claims about crossover *)

\* the first p lines of head followed by the lines of tail after its first p
spliced(head, tail, p) ==
    [i \in 1..Len(tail) |-> IF i <= p THEN head[i] ELSE tail[i]]

\* C17: for parents whose shorter one has more than one line, what crossover
\* returns comes from a pivot p in [1, L-1]: A[:p]+B[p:] and B[:p]+A[p:] when
\* both parse, the one that parses twice when exactly one does; it returns
\* failure only after five pivots, a pivot is given up only when neither of its
\* offspring parses, and every offspring returned, by crossover or by
\* crossover_single, is accepted by is_valid_syntax.
C17_CrossoverOffspring ==
    /\ []((cpc \in {"returned", "done"} /\ min_len(parent_a, parent_b) > 1) =>
           /\ offspring_1 # None =>
                 /\ pivot \in 1..(min_len(parent_a, parent_b) - 1)
                 /\ attempt <= 5
                 /\ LET child_1 == spliced(parent_a, parent_b, pivot)
                        child_2 == spliced(parent_b, parent_a, pivot)
                    IN /\ is_valid_syntax(child_1) \/ is_valid_syntax(child_2)
                       /\ offspring_1.lines = IF is_valid_syntax(child_1)
                                              THEN child_1 ELSE child_2
                       /\ offspring_2.lines = IF is_valid_syntax(child_2)
                                              THEN child_2 ELSE child_1
                 /\ is_valid_syntax(offspring_1.lines)
                 /\ is_valid_syntax(offspring_2.lines)
           /\ offspring_1 = None => (offspring_2 = None /\ attempt = 5)
           /\ cpc = "done" =>
                 /\ single = None <=> offspring_1 = None
                 /\ single \in {offspring_1, offspring_2})
    /\ [][(cpc = "called" /\ cpc' = "called" /\ attempt' # attempt) =>
            /\ attempt' = attempt + 1
            /\ pivot' \in 1..(min_len(parent_a, parent_b) - 1)
            /\ ~is_valid_syntax(spliced(parent_a, parent_b, pivot'))
            /\ ~is_valid_syntax(spliced(parent_b, parent_a, pivot'))]_vars

\* after a pivot that gave nothing, a pivot gives one offspring that parses and
\* one that does not: crossover returns the first twice
C17_Witness ==
    /\ cpc = "returned"
    /\ attempt >= 2
    /\ offspring_1 # None
    /\ offspring_1 = offspring_2
    /\ ~is_valid_syntax(spliced(parent_b, parent_a, pivot))
    /\ Len(parent_a) # Len(parent_b)

\* C18: when the shorter parent has at most one line (an empty parent
\* included), crossover draws no pivot and returns no offspring, whatever the
\* other parent is, and crossover_single returns None.
C18_ShortParentFails ==
    min_len(parent_a, parent_b) <= 1 =>
        /\ cpc = "called" => ENABLED NextCross
        /\ cpc \in {"returned", "done"} =>
              /\ offspring_1 = None
              /\ offspring_2 = None
              /\ attempt = 0
              /\ pivot = None
        /\ cpc = "done" => single = None

\* a one-line parent meets a six-line parent
C18_Witness ==
    /\ cpc = "returned"
    /\ Len(parent_a) = 1
    /\ Len(parent_b) = 6
    /\ offspring_1 = None
    /\ offspring_2 = None

\* C20: the stored inputs of the battery are what they were when the battery
\* was loaded, whatever evaluate_file and run_fault_localization have run on
\* them, and every invocation evaluate_file submits is given a list equal to
\* the stored inputs of its case that shares nothing with them.
C20_StoredInputsUnchanged ==
    /\ [](/\ positive_tests = TestCases(Len(positive_tests))
          /\ negative_tests = TestCases(Len(negative_tests)))
    /\ [][(invoked' # invoked /\ invoked' # <<>>) =>
            /\ ~args'.shared
            /\ args'.value = TestCases(Len(current_tests))[test_index].input]_vars

\* the entry point has changed the list it was given for the second negative
\* case, after it did so for the cases before it
C20_Witness ==
    /\ hpc = "negative"
    /\ test_index = 2
    /\ Len(invoked) >= 3
    /\ candidate.mutates
    /\ worker = "finished"
    /\ args # None
    /\ args.value # negative_tests[test_index].input

----------------------------------------------------------------------------
(* Claims about the files and modules of a run *)

\* C21: every load of a variant by evaluate_file uses a module name that no
\* other load of the run uses, across indices and across generations
C21_ModuleNamesUnique ==
    \A i, j \in DOMAIN loads : i # j => loads[i].name # loads[j].name

\* C22: a variant whose lines are the patient's receives the patient's
\* fitness, whatever its index, the generation, or the variants evaluated
\* before it under the same path or module name
C22_PatientTextGetsPatientFitness ==
    \A k \in DOMAIN scored_population :
        scored_population[k].variant = original_lines
            => scored_population[k].fitness = fitness_when_run(original_lines)

\* C23: the temp directory exists before the first variant is written (no
\* write fails for want of it), each index of the population is written to
\* its own file once per generation, and the directory does not exist after
\* run_evolution returned, with a repair or with the budget exhausted
C23_TempDirectoryLifecycle ==
    /\ exception = "none"
    /\ pc \in {"write", "load", "check"} => temp_dir
    /\ \A i \in DOMAIN written : written[i] <= 1
    /\ pc = "check" =>
          \A i \in 1..population_size :
              /\ written[i] = 1
              /\ files[i] # None
              /\ files[i].text = population[i]
    /\ pc \in {"success", "failed"} => ~temp_dir

\* a run of two generations ended with a repair and the directory is gone
C23_Witness ==
    /\ pc = "success"
    /\ generation = 2
    /\ Len(loads) = 2 * population_size
    /\ ~temp_dir

\* C26: fault localization runs once per run, on the patient and before the
\* population is seeded; its weight list is what every mutation of seeding
\* and of repopulation is given, and it is never recomputed or modified
C26_LocalizedOnce ==
    /\ [](pc # "phase3" => localizations = <<original_lines>>)
    /\ [](pc = "phase3" => localizations = <<>> /\ population = <<>>)
    /\ [](weights_seen \subseteq {weighted_lines})
    /\ [][pc # "phase3" => weighted_lines' = weighted_lines]_vars

\* the second generation was seeded by repopulate with a list of two
\* localized lines
C26_Witness ==
    /\ pc = "check"
    /\ generation = 2
    /\ Len(weighted_lines) = 2
    /\ weights_seen = {weighted_lines}

----------------------------------------------------------------------------
(* Claims about lists as objects *)

\* C24: no operator, crossover, initialize_population or repopulate modifies
\* a list passed to it, each returns a new list: every list that exists keeps
\* its content in every step (the patient's, the variants of a population and
\* of the survivors among them), and a list returned did not exist before
C24_ListsNeverModified ==
    [][/\ \A o \in DOMAIN heap : o \in DOMAIN heap' /\ heap'[o] = heap[o]
       /\ \A k \in DOMAIN produced' :
             k \notin DOMAIN produced /\ produced'[k] # 0
                => produced'[k] \notin DOMAIN heap]_vars

\* a child differing from the patient was bred from a survivor that is not
\* the patient's text either, and crossover has run on the new population
C24_Witness ==
    /\ pc = "crossed"
    /\ heap[original_lines] = HeapPatient
    /\ \E i \in DOMAIN survivors : heap[survivors[i]] # HeapPatient
    /\ \E i \in DOMAIN population :
          /\ population[i] \notin {survivors[j] : j \in DOMAIN survivors}
          /\ heap[population[i]] # HeapPatient
          /\ \A j \in DOMAIN survivors : heap[population[i]] # heap[survivors[j]]
    /\ produced[Len(produced)] # 0

----------------------------------------------------------------------------
(* Claims about the patient's fitness *)

\* the file evaluated is a patient of the battery: it loads, defines the
\* entry point, returns on every case and returns the expected value on the
\* positive cases, which are the cases the patient satisfies
evaluates_patient ==
    /\ candidate.loads = "ok"
    /\ candidate.defines
    /\ \A k \in DOMAIN candidate.pos : candidate.pos[k] = "expected"
    /\ \A k \in DOMAIN candidate.neg : candidate.neg[k] \in {"expected", "wrong", "raises"}

\* C25: the patient's fitness is below max_fitness if and only if at least
\* one negative test fails on the patient
C25_PatientBelowMaxIffNegativeFails ==
    hpc = "returned" /\ evaluates_patient =>
        (eval_result < max_fitness
            <=> \E k \in DOMAIN candidate.neg : candidate.neg[k] # "expected")

----------------------------------------------------------------------------
(* Claims about the operators *)

\* the whitespace a line starts with
leading_whitespace(line) ==
    LET n == CHOOSE n \in 0..Len(line) :
                 /\ \A i \in 1..n : line[i] \in {" ", "\n"}
                 /\ n = Len(line) \/ line[n + 1] \notin {" ", "\n"}
    IN SubSeq(line, 1, n)

\* a line's text from its first to its last character that is not whitespace
content(line) ==
    LET inked == {i \in 1..Len(line) : line[i] \notin {" ", "\n"}}
    IN IF inked = {} THEN <<>>
       ELSE SubSeq(line, CHOOSE i \in inked : \A j \in inked : i <= j,
                   CHOOSE i \in inked : \A j \in inked : j <= i)

\* a line written anew: its leading whitespace, a content and a newline
rewritten(line, text) == leading_whitespace(line) \o text \o <<"\n">>

\* C27: mutate_delete(lines, t) returns a program whose line t is the leading
\* whitespace of the original line t followed by "pass" and a newline, every
\* other line being the input's line at the same position
C27_DeleteLeavesPass ==
    mpc = "done" /\ op = "delete" =>
        /\ Len(mutated_lines.lines) = Len(lines)
        /\ \A i \in Indices(lines) :
              at(mutated_lines.lines, i) =
                  IF i = target_idx THEN rewritten(at(lines, i), <<"p","a","s","s">>)
                  ELSE at(lines, i)

\* a line indented by two blanks was deleted
C27_Witness ==
    /\ mpc = "done"
    /\ op = "delete"
    /\ leading_whitespace(at(lines, target_idx)) = <<" ", " ">>
    /\ mutated_lines.lines # lines

\* C28: mutate_insert(lines, t, s) returns a program whose position t+1 holds
\* the content of line s under line t's indentation, whose lines 0..t are the
\* input's, and in which every input line after t follows, one position down
C28_InsertAfterTarget ==
    mpc = "done" /\ op = "insert" =>
        /\ Len(mutated_lines.lines) = Len(lines) + 1
        /\ \A i \in 0..target_idx : at(mutated_lines.lines, i) = at(lines, i)
        /\ at(mutated_lines.lines, target_idx + 1) =
              rewritten(at(lines, target_idx), content(at(lines, source_idx)))
        /\ \A i \in (target_idx + 1)..(Len(lines) - 1) :
              at(mutated_lines.lines, i + 1) = at(lines, i)

\* a line was inserted in the middle of the program under an indentation that
\* is not its own
C28_Witness ==
    /\ mpc = "done"
    /\ op = "insert"
    /\ target_idx + 1 < Len(lines)
    /\ content(at(lines, source_idx)) # <<>>
    /\ leading_whitespace(at(lines, source_idx)) # leading_whitespace(at(lines, target_idx))
    /\ leading_whitespace(at(lines, target_idx)) # <<>>

\* both endpoints of the swap have content
both_inked == content(at(lines, target_idx)) # <<>> /\ content(at(lines, source_idx)) # <<>>

\* the input with lines a and b each written anew with its own content
normalised ==
    [i \in DOMAIN lines |->
        IF i - 1 \in {target_idx, source_idx} THEN rewritten(lines[i], content(lines[i]))
        ELSE lines[i]]

\* the program the swap is to return when both endpoints have content
exchanged ==
    [i \in DOMAIN lines |->
        CASE i - 1 = target_idx -> rewritten(lines[i], content(at(lines, source_idx)))
          [] i - 1 = source_idx -> rewritten(lines[i], content(at(lines, target_idx)))
          [] OTHER -> lines[i]]

\* C29: mutate_swap(lines, a, b) puts the content of line b at a under a's
\* indentation and the content of line a at b under b's indentation and
\* leaves the other lines; with an endpoint without content, or a = b, the
\* result is the input; the swap applied twice to lines with content gives
\* the input back
C29_SwapIsInvolution ==
    mpc \in {"done", "twice"} /\ op = "swap" =>
        /\ mutated_lines.lines =
              IF ~both_inked \/ target_idx = source_idx THEN lines ELSE exchanged
        /\ mpc = "twice" /\ both_inked => result.lines = lines

\* C29 as the code has it: with an endpoint without content the result is the
\* input; otherwise, a = b included, lines a and b are written anew, each
\* with its indentation, the other's content and a newline, and the swap
\* applied twice gives the input with lines a and b written anew with their
\* own content, which is the input when both lines end with their content
\* and a newline
C29_SwapUpToLineEnds ==
    mpc \in {"done", "twice"} /\ op = "swap" =>
        /\ mutated_lines.lines = IF ~both_inked THEN lines ELSE exchanged
        /\ mpc = "twice" /\ both_inked => result.lines = normalised
        /\ both_inked /\ normalised = lines /\ target_idx = source_idx =>
              mutated_lines.lines = lines
        /\ mpc = "twice" /\ both_inked /\ normalised = lines => result.lines = lines

\* two lines of different indentation, one ending in a blank, were swapped
\* and swapped back
C29_Witness ==
    /\ mpc = "twice"
    /\ op = "swap"
    /\ both_inked
    /\ target_idx # source_idx
    /\ leading_whitespace(at(lines, target_idx)) # leading_whitespace(at(lines, source_idx))
    /\ mutated_lines.lines # lines
    /\ result.lines # lines

\* the tokens of a line include a comparison operator
has_comparison(line) ==
    \E k \in DOMAIN tokens(content(line), 1) : tokens(content(line), 1)[k] = "COMPARE"

\* C30: mutate_expression(lines, t) returns None when line t has no
\* comparison operator; otherwise it replaces one occurrence of a comparison
\* operator on line t, never a part of a two-character operator, by a member
\* of the operator's mutation set, an operator of the six other than the
\* original, and leaves the rest of line t and the other lines
C30_ExpressionMutation ==
    mpc = "done" /\ op = "expression" =>
        LET line == at(lines, target_idx)
        IN IF ~has_comparison(line) THEN mutated_lines = None
           ELSE /\ mutated_lines # None
                /\ \E p \in 0..(Len(line) - 1), k \in DOMAIN COMPARISON_PATTERN :
                      LET original_op == COMPARISON_PATTERN[k]
                      IN /\ matches_at(line, p, original_op)
                         /\ Len(original_op) = 1 => char_at(line, p + 2) # "="
                         /\ \E replacement_op \in COMPARISON_MUTATIONS(original_op) :
                               /\ replacement_op # original_op
                               /\ \E j \in DOMAIN COMPARISON_PATTERN :
                                     replacement_op = COMPARISON_PATTERN[j]
                               /\ mutated_lines.lines =
                                     with_line(lines, target_idx,
                                               SubSeq(line, 1, p) \o replacement_op
                                                 \o SubSeq(line, p + Len(original_op) + 1,
                                                           Len(line)))

\* the occurrences on a line of the words "and" and "or" with no letter next
\* to them
connectives(line) ==
    {occurrence \in [start : 0..(Len(line) - 1), word : {<<"a","n","d">>, <<"o","r">>}] :
        /\ matches_at(line, occurrence.start, occurrence.word)
        /\ char_at(line, occurrence.start) \notin Letters
        /\ char_at(line, occurrence.start + Len(occurrence.word) + 1) \notin Letters}

\* the line with the connective of an occurrence turned into the other one
connective_swapped(line, occurrence) ==
    SubSeq(line, 1, occurrence.start)
      \o (IF occurrence.word = <<"a","n","d">> THEN <<"o","r">> ELSE <<"a","n","d">>)
      \o SubSeq(line, occurrence.start + Len(occurrence.word) + 1, Len(line))

\* C31: mutate_boolean(lines, t) returns None when line t has no word-bounded
\* "and" or "or"; otherwise it turns one such occurrence into the other
\* connective, never a part of an identifier, and leaves the rest of line t
\* and the other lines, so that the same call on its result can give the
\* input back
C31_BooleanMutation ==
    mpc = "done" /\ op = "boolean" =>
        LET line == at(lines, target_idx)
        IN IF connectives(line) = {} THEN mutated_lines = None
           ELSE /\ mutated_lines # None
                /\ \E occurrence \in connectives(line) :
                      mutated_lines.lines =
                          with_line(lines, target_idx, connective_swapped(line, occurrence))
                /\ list_of(lines) \in mutate_boolean(mutated_lines.lines, target_idx)

----------------------------------------------------------------------------
(* Claims about repopulate *)

\* C32: the population repopulate returns starts with the survivors, as they
\* were and in their order; every further entry is what a mutation of a
\* survivor returned in one of at most 10 attempts, or the survivor's clone
\* after 10 failures; every round of the loop adds one entry until there are
\* population_size
C32_RepopulateFillsFromSurvivors ==
    /\ [](/\ Len(new_population) <= population_size
          /\ Len(new_population) >= Len(survivors)
          /\ SubSeq(new_population, 1, Len(survivors)) = survivors
          /\ parent # None => \E i \in DOMAIN survivors : parent = survivors[i]
          /\ attempts <= MAX_ATTEMPTS
          /\ pc = "repopulated" =>
                /\ population = new_population
                /\ Len(population) = population_size)
    /\ [][/\ survivors' = survivors
          /\ new_population' # new_population =>
                /\ parent # None /\ parent' = None
                /\ \/ /\ attempts' = attempts + 1
                      /\ attempts' <= MAX_ATTEMPTS
                      /\ \E child \in all_outputs(parent) :
                            child # None /\ new_population' = Append(new_population, child.lines)
                   \/ /\ attempts' = attempts
                      /\ attempts = MAX_ATTEMPTS
                      /\ new_population' = Append(new_population, parent)]_vars

\* a population of four was returned: two different survivors, then a child
\* that differs from both and a clone made after ten failures
C32_Witness ==
    /\ pc = "repopulated"
    /\ Len(survivors) = 2
    /\ survivors[1] # survivors[2]
    /\ population[3] \notin {survivors[1], survivors[2]}
    /\ population[4] \in {survivors[1], survivors[2]}
    /\ attempts = MAX_ATTEMPTS

----------------------------------------------------------------------------
(* Claims about the generations of a run *)

\* the positions of the scored variants that reach max_fitness
perfect_positions == {i \in DOMAIN scored_population :
                         scored_population[i].fitness >= max_fitness}

\* C33: in each generation every member of the population is scored, in the
\* population's order, before the success check; when several members reach
\* max_fitness the variant reported as the repair is the first of them, and
\* the generation reported is the one in which it was scored
C33_FirstPerfectInOrderWins ==
    /\ [](pc \in {"check", "announced", "saved", "reported", "success"} =>
             /\ Len(scored_population) = Len(population)
             /\ \A i \in DOMAIN population :
                   scored_population[i].variant = population[i])
    /\ [](pc \in {"announced", "saved", "reported", "success"} => perfect_positions # {})
    /\ [](pc = "success" =>
             \E k \in perfect_positions :
                /\ \A j \in perfect_positions : k <= j
                /\ returned = scored_population[k].variant
                /\ repaired_solution = scored_population[k].variant
                /\ report_summary.repaired_lines = scored_population[k].variant
                /\ report_summary.achieved_fitness = scored_population[k].fitness
                /\ report_summary.final_generation = generation)
    /\ [][(pc \in {"check", "announced", "saved", "reported"}) =>
             (/\ generation' = generation
              /\ scored_population' = scored_population
              /\ pc' \in {"announced", "saved", "reported", "success"} =>
                    perfect_positions # {})]_vars

\* in the second generation two different variants reached max_fitness and
\* the run ended with the first
C33_Witness ==
    /\ pc = "success"
    /\ generation = 2
    /\ \E k \in perfect_positions, j \in perfect_positions :
          /\ k < j
          /\ scored_population[k].variant # scored_population[j].variant
          /\ returned = scored_population[k].variant

\* the highest fitness among the variants scored in the running generation
\* and a fitness given
highest(scored, floor) ==
    CHOOSE f \in {floor} \cup {scored[i].fitness : i \in DOMAIN scored} :
        /\ f >= floor
        /\ \A i \in DOMAIN scored : f >= scored[i].fitness

\* C34: at the end of every generation without success best_fitness is the
\* highest fitness of all variants scored so far: it starts at 0, the lowest
\* fitness, each such generation raises it to the highest of itself and the
\* generation's scores, and nothing else changes it; best_variant, when set,
\* is a variant scored with that fitness; the failure report gives
\* best_fitness as the achieved fitness
C34_BestSoFarIsHighestScored ==
    /\ [](pc = "seed" => best_fitness = 0 /\ best_variant = None)
    /\ [](best_variant # None => evaluate_file(best_variant) = best_fitness)
    /\ [](best_variant = None => best_fitness = 0)
    /\ [](pc = "select" =>
             \A i \in DOMAIN scored_population :
                 best_fitness >= scored_population[i].fitness)
    /\ [](pc = "failed" =>
             /\ report_summary.achieved_fitness = best_fitness
             /\ report_summary.repaired_lines = best_variant)
    /\ [][IF pc = "check" /\ pc' = "select"
          THEN /\ best_fitness' = highest(scored_population, best_fitness)
               /\ best_fitness' = best_fitness => best_variant' = best_variant
               /\ best_fitness' > best_fitness =>
                     \E i \in DOMAIN scored_population :
                        /\ scored_population[i].variant = best_variant'
                        /\ scored_population[i].fitness = best_fitness'
          ELSE pc # "check" =>
                  /\ best_fitness' = best_fitness
                  /\ best_variant' = best_variant]_vars

\* a run of two generations failed; its best variant scored above zero and
\* above another variant of the last generation
C34_Witness ==
    /\ pc = "failed"
    /\ final_generation = 2
    /\ best_variant # None
    /\ best_fitness > 0
    /\ \E i \in DOMAIN scored_population : scored_population[i].fitness < best_fitness
    /\ report_summary.achieved_fitness = best_fitness

----------------------------------------------------------------------------
(* Claims about the variants of a run *)

\* C35: no variant is shorter than the variant it was bred from, the patient
\* at first, so every index apply_random_mutation derives from the patient's
\* localized line numbers, as target or as source, is a position of the
\* variant being mutated, in every generation
C35_IndicesStayValid ==
    /\ [](\A k \in DOMAIN weighted_lines : weighted_lines[k][1] - 1 \in Indices(lines))
    /\ [](mpc = "returned" =>
             /\ target_idx \in Indices(lines)
             /\ source_idx \in Indices(lines)
             /\ result # None => Len(result.lines) >= Len(lines))
    /\ [][Len(lines') >= Len(lines)]_vars

\* a variant one line longer than its parent is mutated at the parent's last
\* localized line
C35_Witness ==
    /\ mpc = "returned"
    /\ calls = 1
    /\ target_idx < Len(lines) - 1
    /\ \A k \in DOMAIN weighted_lines : weighted_lines[k][1] - 1 <= target_idx
    /\ result # None

\* C36: the patient parses, and so does every program that enters a
\* population after it: a program handed to apply_random_mutation (the
\* patient when seeding, a survivor when repopulating, each also what the
\* clone fallback appends) and every program the call returns are accepted
\* by is_valid_syntax
C36_PopulationParses ==
    /\ mpc # "idle" => is_valid_syntax(lines)
    /\ mpc = "returned" /\ result # None =>
          /\ is_valid_syntax(result.lines)
          /\ result.lines = mutated_lines.lines

\* a child of the patient has entered a population and is the parent of a
\* later one: its own mutation is returned, a program that is neither the
\* patient nor the child
C36_Witness ==
    /\ mpc = "returned"
    /\ calls = 1
    /\ lines \notin {patient.lines : patient \in Patients}
    /\ result # None
    /\ result.lines # lines
    /\ result.lines \notin {patient.lines : patient \in Patients}

\* the best fitness of a generation that is scored in full (sorted_pop[0][1])
generation_best == select_survivors(scored_population).gen_best

\* C37: with two variants or more and a harness whose verdict on a program
\* does not vary, the top-scoring variant of a generation is the first member
\* of the next generation's population, and the best fitness of a generation
\* is not lower than that of any generation before it (best_fitness, the
\* highest score of the earlier generations)
C37_BestFitnessNeverDrops ==
    pc = "check" /\ generation >= 2 =>
        /\ population[1] = survivors[1]
        /\ generation_best >= best_fitness

====
